---- MODULE Spec2Model ----
(***************************************************************************)
(* A model of the minio-js client (src/src/main/minio.js): the multipart   *)
(* upload orchestration of Client.putObject, the request pipeline of       *)
(* Client.makeRequest, Client.getBucketRegion and Client.getPartialObject, *)
(* the region cache, removeIncompleteUpload, the paginated listings,       *)
(* getRequestOptions and calculatePartSize.  Each part has its own         *)
(* variables and its own specification; the other parts stay idle in it.   *)
(*                                                                         *)
(* The collaborators whose code is not part of src/ (multipart.js,         *)
(* transformers.js, helpers.js) and the transport are the environment:     *)
(* their results are drawn nondeterministically, and what they do with     *)
(* the data is taken from the specification (sections 4.4 and 4.5).        *)
(***************************************************************************)
EXTENDS Integers, Sequences, FiniteSets, TLC

VARIABLES
  \* ---- one putObject call -------------------------------------------
  size,          \* the declared size argument
  actual,        \* the number of bytes the caller's stream really holds
  serverUploadId,\* the in-progress upload the server reports for the key ("" if none)
  serverParts,   \* the parts the server holds for that upload
  pc,            \* where the call is (see Phase)
  uploadId,      \* the upload id handed down the waterfall
  etags,         \* the part list handed to chunkUploader
  partsDone,     \* chunkUploader's list of finished parts
  partNumber,    \* chunkUploader's next part number
  delivered,     \* bytes that have passed the size verifier
  inflight,      \* the part number whose PUT is outstanding, 0 if none
  pipe,          \* the part pipeline: idle, flowing, ending, broken, finished
  ended,         \* the size verifier has seen end-of-input
  partFailed,    \* some part upload of this call has failed
  reqs,          \* the requests this call has issued, in order
  cbs,           \* the invocations of the caller's callback, in order
  \* ---- one makeRequest / getBucketRegion / getPartialObject call ----
  host,          \* this.params.host
  regionMap,     \* this.regionMap
  op,            \* the operation called
  bucketName,    \* its bucket argument ("" if none)
  statusCode,    \* makeRequest's expected status argument
  loc,           \* the GET /bucket?location request of getBucketRegion
  main,          \* the signed request of makeRequest
  region,        \* the region makeRequest signed with ("" before signing)
  mrcbs,         \* the invocations of makeRequest's callback, in order
  gpo,           \* getPartialObject's error pipeline: none, parsing, done
  rcbs,          \* the invocations of the operation's caller's callback, in order
  wire,          \* the transport requests issued, in order
  \* ---- the region lookups of one client ------------------------------
  lookups,       \* the getBucketRegion calls made so far, in call order
  answered,      \* per bucket, the LocationConstraint values the server has sent
  \* ---- one removeIncompleteUpload call ------------------------------
  rmObject,      \* the object argument
  rmServer,      \* per object, the in-progress upload the server reports ("" if none)
  rmPc,          \* where the call is: new, finding, deleting, done, failed
  rmUploadId,    \* what findUploadId handed to the second task
  rmDel,         \* the DELETE request
  rmReqs,        \* the DELETE requests issued, in order
  rmCbs,         \* the invocations of the caller's callback, in order
  \* ---- one listObjects / listIncompleteUploads call ------------------
  lsOp,          \* the operation called
  lsReqs,        \* the page requests made so far, in order
  lsOut,         \* the events of the stream handed to the caller, in order
  lsQueue,       \* async.eachSeries over a page's uploads: those still to do
  lsThrown,      \* the exception thrown into the event loop, if any
  lsFailure,     \* the first failure a step of the listing has reported
  \* ---- one getRequestOptions call -----------------------------------
  roHost,        \* this.params.host
  roOpts,        \* the opts argument
  roOut,         \* the request options returned
  \* ---- one calculatePartSize call -----------------------------------
  psSize,        \* the size argument
  psPart,        \* the part size returned
  \* ---- one construction of a Client ----------------------------------
  ctEndPoint,    \* Url.parse(params.endPoint): protocol, hostname, port
  ctTransport,   \* the transport argument (None if not given)
  ctClient,      \* the outcome: the exception thrown or the client's fields
  \* ---- the Range header of one getPartialObject call -----------------
  rgOffset,      \* the offset argument
  rgLength,      \* the length argument
  rgCalled,      \* the headers have been built
  rgHeaders,     \* the headers of the request
  \* ---- one listBuckets call -------------------------------------------
  lbReq,         \* the GET / request
  lbBody,        \* the error document of the response (<<>> if none)
  lbCbs,         \* the invocations of the caller's callback, in order
  \* ---- the data handler of one getBucketACL call ----------------------
  aclGrants,     \* the grants of the parsed access control list, in order
  aclCanned,     \* the canned ACL handed to the callback
  \* ---- one PostPolicy and the presignedPostPolicy calls on it ---------
  ppExpiration,  \* postPolicy.policy.expiration ("" if not set)
  ppConditions,  \* postPolicy.policy.conditions
  ppFormData,    \* postPolicy.formData
  ppNow,         \* the clock
  ppPending,     \* the presignedPostPolicy calls that wait for their region
  ppThrown,      \* the exception the last setter has thrown, if any
  ppCbs          \* the invocations of the callers' callbacks, in order

putVars == <<size, actual, serverUploadId, serverParts, pc, uploadId, etags,
             partsDone, partNumber, delivered, inflight, pipe, ended,
             partFailed, reqs, cbs>>
reqVars == <<host, regionMap, op, bucketName, statusCode, loc, main, region,
             mrcbs, gpo, rcbs, wire>>
callVars == <<op, bucketName, statusCode, loc, main, region, mrcbs, gpo,
              rcbs, wire>>
regVars == <<lookups, answered>>
rmVars == <<rmObject, rmServer, rmPc, rmUploadId, rmDel, rmReqs, rmCbs>>
lsVars == <<lsOp, lsReqs, lsOut, lsQueue, lsThrown, lsFailure>>
roVars == <<roHost, roOpts, roOut>>
psVars == <<psSize, psPart>>
ctVars == <<ctEndPoint, ctTransport, ctClient>>
rgVars == <<rgOffset, rgLength, rgCalled, rgHeaders>>
lbVars == <<lbReq, lbBody, lbCbs>>
aclVars == <<aclGrants, aclCanned>>
ppVars == <<ppExpiration, ppConditions, ppFormData, ppNow, ppPending, ppThrown,
            ppCbs>>
notPut == <<reqVars, regVars, rmVars, lsVars, roVars, psVars, ctVars,
            rgVars, lbVars, aclVars, ppVars>>
notReq == <<putVars, regVars, rmVars, lsVars, roVars, psVars, ctVars,
            rgVars, lbVars, aclVars, ppVars>>
notReg == <<putVars, callVars, rmVars, lsVars, roVars, psVars, ctVars,
            rgVars, lbVars, aclVars, ppVars>>
notRm == <<putVars, reqVars, regVars, lsVars, roVars, psVars, ctVars,
           rgVars, lbVars, aclVars, ppVars>>
notLs == <<putVars, reqVars, regVars, rmVars, roVars, psVars, ctVars,
           rgVars, lbVars, aclVars, ppVars>>
notRo == <<putVars, reqVars, regVars, rmVars, lsVars, psVars, ctVars,
           rgVars, lbVars, aclVars, ppVars>>
notPs == <<putVars, reqVars, regVars, rmVars, lsVars, roVars, ctVars,
           rgVars, lbVars, aclVars, ppVars>>
notCt == <<putVars, reqVars, regVars, rmVars, lsVars, roVars, psVars,
           rgVars, lbVars, aclVars, ppVars>>
notRg == <<putVars, reqVars, regVars, rmVars, lsVars, roVars, psVars,
           ctVars, lbVars, aclVars, ppVars>>
notLb == <<putVars, reqVars, regVars, rmVars, lsVars, roVars, psVars,
           ctVars, rgVars, aclVars, ppVars>>
notAcl == <<putVars, reqVars, regVars, rmVars, lsVars, roVars, psVars,
            ctVars, rgVars, lbVars, ppVars>>
notPp == <<putVars, reqVars, regVars, rmVars, lsVars, roVars, psVars,
           ctVars, rgVars, lbVars, aclVars>>
vars == <<putVars, reqVars, regVars, rmVars, lsVars, roVars, psVars,
          ctVars, rgVars, lbVars, aclVars, ppVars>>

----------------------------------------------------------------------------
(* Bounds of the model. *)

\* The largest declared size is MaxBlocks * 5 MiB.
MaxBlocks == 2
\* The number of getBucketRegion calls made on one client.
MaxLookups == 2
\* A listing has up to MaxPages pages of up to MaxRecords records each.
MaxPages == 2
MaxRecords == 2
\* An object key has up to MaxKeyLen characters.
MaxKeyLen == 2
\* The stream holds up to Slack bytes fewer or more than declared.
Slack == 1

----------------------------------------------------------------------------
(* Values. *)

None == "none"
Cb(e, v) == [err |-> e, val |-> v]
IsError(c) == c.err # None
Max(a, b) == IF a > b THEN a ELSE b
Min(a, b) == IF a < b THEN a ELSE b

\* 5 * 1025 * 1024 bytes is the source's maximumPartSize counted in KiB: the
\* byte count 5 * 1025 * 1024 * 1024 is beyond the integers TLC evaluates.
maximumPartSizeKiB == 5 * 1025 * 1024

\* partSize > maximumPartSize, evaluated without forming the byte count.
exceedsMaximumPartSize(partSize) ==
  \/ partSize \div 1024 > maximumPartSizeKiB
  \/ partSize \div 1024 = maximumPartSizeKiB /\ partSize % 1024 > 0

calculatePartSize(sz) ==
  LET minimumPartSize == 5 * 1024 * 1024
      partSize == sz \div 9999
  IN IF exceedsMaximumPartSize(partSize)
       THEN maximumPartSizeKiB * 1024
       ELSE Max(minimumPartSize, partSize)

\* The strategy test of putObject: a single PUT up to 5 MiB.  (Variant: a
\* strict comparison.)
isSmallUpload_lt(sz) == sz < 5 * 1024 * 1024
isSmallUpload(sz) == sz <= 5 * 1024 * 1024

\* The content hash of the n-th block of the caller's stream, and an etag
\* that is the hash of no block.
Md5(n) == <<"md5", n>>
StaleEtag == <<"md5", 0>>

Part(n, e, s) == [part |-> n, etag |-> e, size |-> s]
Req(k, n) == [kind |-> k, part |-> n]
Kinds(rs) == {rs[i].kind : i \in 1..Len(rs)}
Range(rs) == {rs[i] : i \in 1..Len(rs)}
Count(rs, k) == Cardinality({i \in 1..Len(rs) : rs[i].kind = k})

FiveMiB == 5 * 1024 * 1024

----------------------------------------------------------------------------
(* putObject: the inputs. *)

SmallSizes == {0, FiveMiB}
LargeSizes == {FiveMiB + 1} \cup {k * FiveMiB : k \in 2..MaxBlocks}
PutSizes == SmallSizes \cup LargeSizes
ActualSizes(sz) == {a \in (sz - Slack)..(sz + Slack) : a >= 0}

\* What the server may hold for the key before the call: no upload, or an
\* upload with no part, with part 1 as the stream has it, or with a part 1 of
\* other content.
ServerStates ==
  {<<"", {}>>}
    \cup {<<"upload-1", ps>> : ps \in {{}, {Part(1, Md5(1), FiveMiB)},
                                         {Part(1, StaleEtag, FiveMiB)}}}

PutIdle ==
  /\ pc = "new" /\ uploadId = "" /\ etags = {} /\ partsDone = <<>>
  /\ partNumber = 1 /\ delivered = 0 /\ inflight = 0 /\ pipe = "idle"
  /\ ended = FALSE /\ partFailed = FALSE /\ reqs = <<>> /\ cbs = <<>>

PutInit ==
  /\ size \in PutSizes
  /\ actual \in ActualSizes(size)
  /\ \E st \in ServerStates : serverUploadId = st[1] /\ serverParts = st[2]
  /\ PutIdle

----------------------------------------------------------------------------
(* putObject: the waterfall of lines 646-676.  async.waterfall wraps the    *)
(* final callback so that it runs once: a task that reports again after     *)
(* the waterfall has ended reaches nobody.                                  *)

\* Variant: the final callback without the run-once wrapper.
waterfallCallback_twice(e, v) ==
  /\ cbs' = Append(cbs, Cb(e, v))
  /\ pc' = IF e # None THEN "failed" ELSE "done"

waterfallCallback(e, v) ==
  IF cbs = <<>>
    THEN /\ cbs' = <<Cb(e, v)>>
         /\ pc' = IF e # None THEN "failed" ELSE "done"
    ELSE UNCHANGED <<cbs, pc>>

\* The call itself: the strategy is chosen from the declared size; the
\* multipart path starts the waterfall, whose first task is findUploadId.
putObject ==
  /\ pc = "new"
  /\ IF isSmallUpload(size)
       THEN pc' = "buffering" /\ reqs' = reqs
       ELSE pc' = "discovering" /\ reqs' = Append(reqs, Req("ListUploads", 0))
  /\ UNCHANGED notPut
  /\ UNCHANGED <<size, actual, serverUploadId, serverParts, uploadId, etags,
                 partsDone, partNumber, delivered, inflight, pipe, ended,
                 partFailed, cbs>>

\* size <= 5 MiB: the concater hands over the whole stream and doPutObject
\* sends it in one PUT.
concaterData ==
  /\ pc = "buffering"
  /\ pc' = "putting"
  /\ reqs' = Append(reqs, Req("PutObject", 0))
  /\ UNCHANGED notPut
  /\ UNCHANGED <<size, actual, serverUploadId, serverParts, uploadId, etags,
                 partsDone, partNumber, delivered, inflight, pipe, ended,
                 partFailed, cbs>>

\* size <= 5 MiB: the stream fails before it ends.
concaterError ==
  /\ pc = "buffering"
  /\ pc' = "failed"
  /\ cbs' = Append(cbs, Cb("StreamError", None))
  /\ UNCHANGED notPut
  /\ UNCHANGED <<size, actual, serverUploadId, serverParts, uploadId, etags,
                 partsDone, partNumber, delivered, inflight, pipe, ended,
                 partFailed, reqs>>

\* size <= 5 MiB: doPutObject reports to the caller's callback.
doPutObjectDone ==
  /\ pc = "putting"
  /\ \E ok \in BOOLEAN :
       IF ok THEN pc' = "done" /\ cbs' = Append(cbs, Cb(None, "etag"))
             ELSE pc' = "failed" /\ cbs' = Append(cbs, Cb("PutError", None))
  /\ UNCHANGED notPut
  /\ UNCHANGED <<size, actual, serverUploadId, serverParts, uploadId, etags,
                 partsDone, partNumber, delivered, inflight, pipe, ended,
                 partFailed, reqs>>

\* The second task, entered with what findUploadId found.  (Variant: the
\* early return after listAllParts is missing.)
resumeOrInitiate_both(id) ==
  /\ pc' = "resuming"
  /\ uploadId' = id
  /\ reqs' = reqs \o <<Req("ListParts", 0), Req("Initiate", 0)>>

resumeOrInitiate(id) ==
  IF id # ""
    THEN /\ pc' = "resuming"
         /\ uploadId' = id
         /\ reqs' = Append(reqs, Req("ListParts", 0))
    ELSE /\ pc' = "initiating"
         /\ uploadId' = uploadId
         /\ reqs' = Append(reqs, Req("Initiate", 0))

findUploadIdDone ==
  /\ pc = "discovering"
  /\ \E ok \in BOOLEAN :
       IF ok THEN /\ resumeOrInitiate(serverUploadId)
                  /\ cbs' = cbs
             ELSE /\ waterfallCallback("ListUploadsError", None)
                  /\ UNCHANGED <<uploadId, reqs>>
  /\ UNCHANGED notPut
  /\ UNCHANGED <<size, actual, serverUploadId, serverParts, etags, partsDone,
                 partNumber, delivered, inflight, pipe, ended, partFailed>>

\* The third task: the part pipeline stream -> chunker -> sizeVerifier ->
\* chunkUploader is set up with the upload id and the known parts.
startPipeline(id, parts) ==
  /\ uploadId' = id
  /\ etags' = parts
  /\ pipe' = "flowing"
  /\ pc' = "uploading"
  /\ cbs' = cbs

listAllPartsDone ==
  /\ pc = "resuming"
  /\ \E ok \in BOOLEAN :
       IF ok THEN startPipeline(uploadId, serverParts)
             ELSE /\ waterfallCallback("ListPartsError", None)
                  /\ UNCHANGED <<uploadId, etags, pipe>>
  /\ UNCHANGED notPut
  /\ UNCHANGED <<size, actual, serverUploadId, serverParts, partsDone,
                 partNumber, delivered, inflight, ended, partFailed, reqs>>

initiateNewMultipartUploadDone ==
  /\ pc = "initiating"
  /\ \E ok \in BOOLEAN :
       IF ok THEN startPipeline("upload-new", {})
             ELSE /\ waterfallCallback("InitiateError", None)
                  /\ UNCHANGED <<uploadId, etags, pipe>>
  /\ UNCHANGED notPut
  /\ UNCHANGED <<size, actual, serverUploadId, serverParts, partsDone,
                 partNumber, delivered, inflight, ended, partFailed, reqs>>

----------------------------------------------------------------------------
(* putObject: the part pipeline.  chunker cuts the stream into blocks of    *)
(* partSize bytes (the last one shorter); sizeVerifier counts them and      *)
(* fails at end-of-input when the count is not the declared size;           *)
(* chunkUploader takes one block at a time, reuses a known part of the      *)
(* same size and hash or PUTs the block, and emits the part list when its   *)
(* input has ended and every block is done.                                 *)

\* chunkUploader: part n need not be sent again.
canReuse(parts, n, len) ==
  \E p \in parts : p.part = n /\ p.etag = Md5(n) /\ p.size = len

\* sizeVerifier at end-of-input.
sizeVerifierOk(seen, expected) == seen = expected

\* The 'error' listener on the pipeline: the third task reports the error.
\* (Variants: no listener; a listener that reports the error as a result.)
onPipelineError_dropped(e) == UNCHANGED <<cbs, pc, reqs>>

onPipelineError_asData(e) ==
  /\ pc' = "completing"
  /\ reqs' = Append(reqs, Req("Complete", 0))
  /\ cbs' = cbs

onPipelineError(e) ==
  /\ waterfallCallback(e, None)
  /\ reqs' = reqs

\* The 'data' listener on the pipeline: the third task reports the part list
\* and the fourth task sends Complete Multipart Upload.
onPipelineData ==
  /\ pc' = "completing"
  /\ reqs' = Append(reqs, Req("Complete", 0))
  /\ cbs' = cbs

\* A block leaves the chunker, passes sizeVerifier and reaches chunkUploader,
\* which is idle.
chunk ==
  /\ pipe = "flowing" /\ inflight = 0 /\ delivered < actual
  /\ LET len == Min(calculatePartSize(size), actual - delivered)
     IN /\ delivered' = delivered + len
        /\ IF canReuse(etags, partNumber, len)
             THEN /\ partsDone' = Append(partsDone,
                                    [part |-> partNumber, etag |-> Md5(partNumber)])
                  /\ partNumber' = partNumber + 1
                  /\ UNCHANGED <<inflight, reqs>>
             ELSE /\ inflight' = partNumber
                  /\ reqs' = Append(reqs, Req("PutPart", partNumber))
                  /\ UNCHANGED <<partsDone, partNumber>>
  /\ UNCHANGED notPut
  /\ UNCHANGED <<size, actual, serverUploadId, serverParts, pc, uploadId,
                 etags, pipe, ended, partFailed, cbs>>

\* The outstanding part PUT is answered.  A failure makes chunkUploader emit
\* 'error', which ends the pipeline.
partUploadDone ==
  /\ inflight # 0
  /\ \E ok \in BOOLEAN :
       IF ok THEN /\ partsDone' = Append(partsDone,
                                    [part |-> partNumber, etag |-> Md5(partNumber)])
                  /\ partNumber' = partNumber + 1
                  /\ UNCHANGED <<pipe, partFailed, cbs, pc, reqs>>
             ELSE /\ pipe' = "broken"
                  /\ partFailed' = TRUE
                  /\ onPipelineError("PartError")
                  /\ UNCHANGED <<partsDone, partNumber>>
  /\ inflight' = 0
  /\ UNCHANGED notPut
  /\ UNCHANGED <<size, actual, serverUploadId, serverParts, uploadId, etags,
                 delivered, ended>>

\* The caller's stream emits 'error' while the pipeline is running.
streamError ==
  /\ pipe = "flowing"
  /\ pipe' = "broken"
  /\ onPipelineError("StreamError")
  /\ UNCHANGED notPut
  /\ UNCHANGED <<size, actual, serverUploadId, serverParts, uploadId, etags,
                 partsDone, partNumber, delivered, inflight, ended,
                 partFailed>>

\* The caller's stream has ended and its last block has passed: sizeVerifier,
\* created with the declared size, compares its count with it.  (Variant: the
\* pipeline is set up without sizeVerifier.)
streamEnd_unverified ==
  /\ pipe = "flowing" /\ delivered = actual
  /\ ended' = TRUE
  /\ pipe' = "ending"
  /\ UNCHANGED <<cbs, pc, reqs>>
  /\ UNCHANGED notPut
  /\ UNCHANGED <<size, actual, serverUploadId, serverParts, uploadId, etags,
                 partsDone, partNumber, delivered, inflight, partFailed>>

streamEnd ==
  /\ pipe = "flowing" /\ delivered = actual
  /\ ended' = TRUE
  /\ IF sizeVerifierOk(delivered, size)
       THEN pipe' = "ending" /\ UNCHANGED <<cbs, pc, reqs>>
       ELSE pipe' = "broken" /\ onPipelineError("SizeMismatch")
  /\ UNCHANGED notPut
  /\ UNCHANGED <<size, actual, serverUploadId, serverParts, uploadId, etags,
                 partsDone, partNumber, delivered, inflight, partFailed>>

\* chunkUploader's input has ended and no block is left: it emits the part
\* list, and the waterfall goes on to completeMultipartUpload.
chunkUploaderFlush ==
  /\ pipe = "ending" /\ inflight = 0
  /\ pipe' = "finished"
  /\ onPipelineData
  /\ UNCHANGED notPut
  /\ UNCHANGED <<size, actual, serverUploadId, serverParts, uploadId, etags,
                 partsDone, partNumber, delivered, inflight, ended,
                 partFailed>>

\* completeMultipartUpload reports to the waterfall's final callback.
completeMultipartUploadDone ==
  /\ pc = "completing"
  /\ \E ok \in BOOLEAN :
       IF ok THEN waterfallCallback(None, "etag")
             ELSE waterfallCallback("CompleteError", None)
  /\ UNCHANGED notPut
  /\ UNCHANGED <<size, actual, serverUploadId, serverParts, uploadId, etags,
                 partsDone, partNumber, delivered, inflight, pipe, ended,
                 partFailed, reqs>>

----------------------------------------------------------------------------
(* The upload model. *)

PutNext ==
  \/ putObject
  \/ concaterData
  \/ concaterError
  \/ doPutObjectDone
  \/ findUploadIdDone
  \/ listAllPartsDone
  \/ initiateNewMultipartUploadDone
  \/ chunk
  \/ partUploadDone
  \/ streamError
  \/ streamEnd
  \/ chunkUploaderFlush
  \/ completeMultipartUploadDone

----------------------------------------------------------------------------
(* putObject: the properties. *)

Multipart == size > FiveMiB
NumBlocks(a) == (a + calculatePartSize(size) - 1) \div calculatePartSize(size)
MultipartKinds == {"ListUploads", "ListParts", "Initiate", "PutPart", "Complete"}

\* C1: putObject chooses its strategy by the declared size alone.  For
\* size <= 5 MiB no multipart request (upload listing, part listing, initiate,
\* part upload, complete) is ever issued and the buffered stream goes out in
\* exactly one whole-object PUT (never a second one); for size > 5 MiB no
\* whole-object PUT is ever issued and the call starts the multipart path
\* with findUploadId's upload listing.
C1_StrategyBySize ==
  /\ size <= FiveMiB =>
       /\ Kinds(reqs) \cap MultipartKinds = {}
       /\ Count(reqs, "PutObject") <= 1
       /\ pc \in {"putting", "done"} => Count(reqs, "PutObject") = 1
       /\ pc \in {"new", "buffering", "putting", "done", "failed"}
  /\ size > FiveMiB =>
       /\ "PutObject" \notin Kinds(reqs)
       /\ pc # "new" => reqs # <<>> /\ reqs[1].kind = "ListUploads"
       /\ pc \notin {"buffering", "putting"}

C1_Witness ==
  /\ size = FiveMiB /\ pc = "done"
  /\ reqs = <<Req("PutObject", 0)>> /\ cbs = <<Cb(None, "etag")>>

\* C2: in a multipart putObject whose stream has ended after delivering a
\* number of bytes other than the declared size (fewer or more), the
\* callback has been invoked exactly once, with the size-mismatch error, and
\* no Complete Multipart Upload request has been or will be sent; no call
\* whose stream holds another number of bytes than declared ever sends one.
C2_SizeMismatch ==
  (Multipart /\ actual # size) =>
     /\ "Complete" \notin Kinds(reqs)
     /\ pipe \notin {"ending", "finished"}
     /\ ended => cbs = <<Cb("SizeMismatch", None)>> /\ pc = "failed"

C2_Witness ==
  /\ Multipart /\ ended /\ actual < size /\ Len(partsDone) >= 1
  /\ cbs = <<Cb("SizeMismatch", None)>>

\* C3: within one multipart putObject call Complete Multipart Upload is
\* issued at most once, and only when the part pipeline has finished
\* successfully: the stream has ended with the declared size, no part upload
\* is outstanding, none has failed, and every block of the stream has its
\* part, in order, with a confirmed ETag.
C3_CompleteAfterParts ==
  /\ Count(reqs, "Complete") <= 1
  /\ "Complete" \in Kinds(reqs) =>
       /\ reqs[Len(reqs)].kind = "Complete"
       /\ pipe = "finished" /\ ended /\ delivered = size /\ actual = size
       /\ inflight = 0
       /\ ~partFailed
       /\ partsDone = [k \in 1..NumBlocks(actual) |->
                         [part |-> k, etag |-> Md5(k)]]
  /\ (inflight # 0 \/ partFailed) => "Complete" \notin Kinds(reqs)

C3_Witness ==
  /\ "Complete" \in Kinds(reqs) /\ Len(partsDone) >= 2
  /\ Count(reqs, "PutPart") >= 1

\* C4: if a part upload fails during a multipart putObject (that is, while
\* the call has not yet reported to its caller), its error is delivered to
\* the caller; and after any part upload has failed the caller has received
\* exactly one callback, an error, no further request is issued (no part
\* upload, no Complete, no abort DELETE), and the part list already confirmed
\* is left as it is.
C4_PartFailure ==
  /\ [](partFailed =>
          /\ Len(cbs) = 1 /\ IsError(cbs[1]) /\ pc = "failed"
          /\ Kinds(reqs) \cap {"Complete", "Abort"} = {}
          /\ inflight = 0)
  /\ [][(~partFailed /\ partFailed' /\ cbs = <<>>)
          => cbs' = <<Cb("PartError", None)>>]_vars
  /\ [][partFailed => (reqs' = reqs /\ cbs' = cbs /\ partsDone' = partsDone)]_vars

C4_Witness ==
  /\ partFailed /\ cbs = <<Cb("PartError", None)>>
  /\ Len(partsDone) >= 1 /\ delivered < actual

\* C5: the multipart path starts with findUploadId.  When it returns an
\* upload id the call lists that upload's parts (once) and never initiates an
\* upload; when it returns none the call initiates an upload (once) and
\* starts with an empty part list.  No call both lists parts and initiates.
C5_ResumeOrInitiate ==
  Multipart =>
    /\ pc # "new" => reqs[1].kind = "ListUploads"
    /\ Count(reqs, "ListUploads") <= 1
    /\ Count(reqs, "ListParts") <= 1 /\ Count(reqs, "Initiate") <= 1
    /\ ~("ListParts" \in Kinds(reqs) /\ "Initiate" \in Kinds(reqs))
    /\ Len(reqs) >= 2 =>
         reqs[2].kind = IF serverUploadId # "" THEN "ListParts" ELSE "Initiate"
    /\ pc \in {"resuming", "initiating"} => Len(reqs) = 2
    /\ pipe # "idle" =>
         /\ Len(reqs) >= 2
         /\ uploadId = IF serverUploadId # "" THEN serverUploadId ELSE "upload-new"
         /\ etags = IF serverUploadId # "" THEN serverParts ELSE {}

C5_Witness ==
  /\ Multipart /\ pipe = "flowing" /\ serverUploadId = ""
  /\ reqs = <<Req("ListUploads", 0), Req("Initiate", 0)>> /\ etags = {}

\* C6: a multipart putObject call moves through NEW, DISCOVERING, one of
\* RESUMING and INITIATING, UPLOADING, COMPLETING, DONE in that order, or
\* from any phase after NEW to FAILED; it is FAILED exactly when the caller
\* has been given an error and DONE exactly when it has been given the ETag;
\* in DONE and FAILED the phase stays, no request is issued and the callback
\* is not invoked again; and no abort DELETE is ever sent.
PhaseOrder ==
  {<<"new", "discovering">>, <<"discovering", "resuming">>,
   <<"discovering", "initiating">>, <<"resuming", "uploading">>,
   <<"initiating", "uploading">>, <<"uploading", "completing">>,
   <<"completing", "done">>}
    \cup {<<ph, "failed">> : ph \in {"discovering", "resuming", "initiating",
                                     "uploading", "completing"}}

C6_Phases ==
  /\ [](Multipart =>
          /\ pc = "failed" <=> (cbs # <<>> /\ IsError(cbs[1]))
          /\ pc = "done" <=> (cbs # <<>> /\ cbs[1] = Cb(None, "etag"))
          /\ Len(cbs) <= 1
          /\ "Abort" \notin Kinds(reqs)
          /\ ("ListParts" \in Kinds(reqs)) # ("Initiate" \in Kinds(reqs))
               \/ pc \in {"new", "discovering", "failed"})
  /\ [][Multipart => (pc' = pc \/ <<pc, pc'>> \in PhaseOrder)]_vars
  /\ [][(Multipart /\ pc \in {"done", "failed"})
          => (pc' = pc /\ reqs' = reqs /\ cbs' = cbs)]_vars

C6_Witness ==
  /\ Multipart /\ pc = "failed" /\ inflight # 0
  /\ cbs = <<Cb("StreamError", None)>>

----------------------------------------------------------------------------
(* The request pipeline: makeRequest, getBucketRegion, getPartialObject.    *)
(*                                                                          *)
(* A transport request emits 'response' at most once and 'error' at most    *)
(* once; 'error' may come before any response (and then none follows) or    *)
(* after it, while the body is read.  A response body that is piped into a  *)
(* parser ends in one event of the parser.                                  *)

Hosts == {"s3.amazonaws.com", "play.minio.io"}
Buckets == {"b1"}
Regions == {"us-east-1", "eu-west-1"}
Statuses == {200, 204, 206, 301, 404}
ExpectedStatuses == {0, 200, 204}
Ops == {"makeRequest", "getBucketRegion", "getPartialObject"}

NotSent == [st |-> "none", status |-> 0, errored |-> FALSE]
Sent == [st |-> "sent", status |-> 0, errored |-> FALSE]

ReqInit ==
  /\ host \in Hosts
  /\ regionMap \in [Buckets -> Regions \cup {""}]
  /\ op = None /\ bucketName = "" /\ statusCode = 0
  /\ loc = NotSent /\ main = NotSent /\ region = ""
  /\ mrcbs = <<>> /\ gpo = None /\ rcbs = <<>> /\ wire = <<>>

\* getPartialObject accepts the response as the object's body.  (Variant:
\* any 2xx status.)
isObjectStatus_2xx(status) == status >= 200 /\ status < 300
isObjectStatus(status) == status = 200 \/ status = 206

\* makeRequest's response handler: what it does with a response.  (Variants:
\* expected status 0 accepts 2xx and 3xx only; a non-zero expected status
\* accepts any 2xx.)
responseDispatch_2xx3xx(expected, status) ==
  IF expected = 0
    THEN IF status >= 200 /\ status < 400 THEN "success" ELSE "error"
    ELSE IF expected # status THEN "error" ELSE "success"

responseDispatch_any2xx(expected, status) ==
  IF expected = 0 THEN "success"
  ELSE IF status < 200 \/ status >= 300 THEN "error" ELSE "success"

responseDispatch(expected, status) ==
  IF expected = 0 THEN "success"
  ELSE IF expected # status THEN "error" ELSE "success"

\* makeRequest's callback is invoked (o is the operation that called
\* makeRequest).  For getPartialObject it is the handler of lines 576-588: an
\* error goes to the caller, a 200 or 206 response is handed over as a
\* stream, any other response goes to the error parser.
makeRequestCallback(o, e, status) ==
  /\ mrcbs' = Append(mrcbs, Cb(e, IF e = None THEN "response" ELSE None))
  /\ IF o # "getPartialObject" THEN UNCHANGED <<gpo, rcbs>>
     ELSE IF e # None THEN rcbs' = Append(rcbs, Cb(e, None)) /\ gpo' = gpo
     ELSE IF isObjectStatus(status)
            THEN rcbs' = Append(rcbs, Cb(None, "stream")) /\ gpo' = gpo
            ELSE rcbs' = rcbs /\ gpo' = "parsing"

\* Variant: makeRequest sends its request for an error of the resolver too.
regionCallback_sendAnyway(o, e, r) ==
  IF o = "getBucketRegion"
    THEN /\ rcbs' = Append(rcbs, Cb(e, r))
         /\ UNCHANGED <<main, region, mrcbs, gpo, wire>>
    ELSE IF e # None
      THEN /\ makeRequestCallback(o, e, 0)
           /\ region' = "us-east-1"
           /\ main' = Sent
           /\ wire' = Append(wire, "main")
      ELSE /\ region' = r
           /\ main' = Sent
           /\ wire' = Append(wire, "main")
           /\ UNCHANGED <<mrcbs, gpo, rcbs>>

\* Variant: makeRequest drops an error of the resolver.
regionCallback_dropError(o, e, r) ==
  IF o = "getBucketRegion"
    THEN /\ rcbs' = Append(rcbs, Cb(e, r))
         /\ UNCHANGED <<main, region, mrcbs, gpo, wire>>
    ELSE IF e # None
      THEN UNCHANGED <<main, region, mrcbs, gpo, rcbs, wire>>
      ELSE /\ region' = r
           /\ main' = Sent
           /\ wire' = Append(wire, "main")
           /\ UNCHANGED <<mrcbs, gpo, rcbs>>

\* The callback handed to getBucketRegion.  For getBucketRegion called
\* directly it is the caller's; for makeRequest it is the continuation of
\* lines 186-201, which signs with the region and sends the request.
regionCallback(o, e, r) ==
  IF o = "getBucketRegion"
    THEN /\ rcbs' = Append(rcbs, Cb(e, r))
         /\ UNCHANGED <<main, region, mrcbs, gpo, wire>>
    ELSE IF e # None
      THEN /\ makeRequestCallback(o, e, 0)
           /\ UNCHANGED <<main, region, wire>>
      ELSE /\ region' = r
           /\ main' = Sent
           /\ wire' = Append(wire, "main")
           /\ UNCHANGED <<mrcbs, gpo, rcbs>>

\* getBucketRegion up to its request (lines 205-216).
getBucketRegion(o, b) ==
  IF host # "s3.amazonaws.com"
    THEN regionCallback(o, None, "us-east-1") /\ loc' = loc
  ELSE IF b = ""
    THEN regionCallback(o, None, "us-east-1") /\ loc' = loc
  ELSE IF regionMap[b] # ""
    THEN regionCallback(o, None, regionMap[b]) /\ loc' = loc
  ELSE /\ loc' = Sent
       /\ wire' = Append(wire, "location")
       /\ UNCHANGED <<main, region, mrcbs, gpo, rcbs>>

\* An operation is called: makeRequest with an expected status,
\* getBucketRegion, or getPartialObject (which passes 0 to makeRequest).
call ==
  /\ op = None
  /\ \E o \in Ops, b \in Buckets \cup {""}, sc \in ExpectedStatuses :
       /\ o = "getPartialObject" => sc = 0 /\ b # ""
       /\ o = "getBucketRegion" => sc = 0
       /\ op' = o /\ bucketName' = b /\ statusCode' = sc
       /\ getBucketRegion(o, b)
  /\ UNCHANGED <<host, regionMap>>
  /\ UNCHANGED notReq

\* The location request emits 'error'.
locationError ==
  /\ loc.st # "none" /\ ~loc.errored
  /\ loc' = [loc EXCEPT !.errored = TRUE]
  /\ regionCallback(op, "NetworkError", None)
  /\ UNCHANGED <<host, regionMap, op, bucketName, statusCode>>
  /\ UNCHANGED notReq

\* The location request emits 'response': the body is piped into the error
\* parser (status other than 200) or the region parser.
locationResponse ==
  /\ loc.st # "none" /\ loc.st = "sent" /\ ~loc.errored
  /\ \E status \in Statuses : loc' = [loc EXCEPT !.st = "responded", !.status = status]
  /\ UNCHANGED <<host, regionMap, op, bucketName, statusCode, main, region,
                 mrcbs, gpo, rcbs, wire>>
  /\ UNCHANGED notReq

\* The body of the location response has been parsed: the error parser emits
\* 'error'; the region parser emits 'error' or the region as 'data', which is
\* cached (an empty one as us-east-1) and reported.
locationParsed ==
  /\ loc.st # "none" /\ loc.st = "responded"
  /\ loc' = [loc EXCEPT !.st = "parsed"]
  /\ IF loc.status # 200
       THEN regionCallback(op, "ServerError", None) /\ regionMap' = regionMap
       ELSE \/ regionCallback(op, "ParseError", None) /\ regionMap' = regionMap
            \/ \E data \in Regions \cup {""} :
                 LET r == IF data = "" THEN "us-east-1" ELSE data
                 IN /\ regionMap' = [regionMap EXCEPT ![bucketName] = r]
                    /\ regionCallback(op, None, r)
  /\ UNCHANGED <<host, op, bucketName, statusCode>>
  /\ UNCHANGED notReq

\* The signed request emits 'error'.
requestError ==
  /\ main.st # "none" /\ ~main.errored
  /\ main' = [main EXCEPT !.errored = TRUE]
  /\ makeRequestCallback(op, "NetworkError", 0)
  /\ UNCHANGED <<host, regionMap, op, bucketName, statusCode, loc, region, wire>>
  /\ UNCHANGED notReq

\* The signed request emits 'response' (lines 189-199).
requestResponse ==
  /\ main.st # "none" /\ main.st = "sent" /\ ~main.errored
  /\ \E status \in Statuses :
       IF responseDispatch(statusCode, status) = "success"
         THEN /\ main' = [main EXCEPT !.st = "handed", !.status = status]
              /\ makeRequestCallback(op, None, status)
         ELSE /\ main' = [main EXCEPT !.st = "parsing", !.status = status]
              /\ UNCHANGED <<mrcbs, gpo, rcbs>>
  /\ UNCHANGED <<host, regionMap, op, bucketName, statusCode, loc, region, wire>>
  /\ UNCHANGED notReq

\* The error parser of makeRequest emits 'error'.
requestErrorParsed ==
  /\ main.st # "none" /\ main.st = "parsing"
  /\ main' = [main EXCEPT !.st = "parsed"]
  /\ makeRequestCallback(op, "ServerError", 0)
  /\ UNCHANGED <<host, regionMap, op, bucketName, statusCode, loc, region, wire>>
  /\ UNCHANGED notReq

\* The error parser of getPartialObject emits 'error'.
objectErrorParsed ==
  /\ gpo = "parsing"
  /\ gpo' = "done"
  /\ rcbs' = Append(rcbs, Cb("ServerError", None))
  /\ UNCHANGED <<host, regionMap, op, bucketName, statusCode, loc, main,
                 region, mrcbs, wire>>
  /\ UNCHANGED notReq

\* The request pipeline is idle in the upload model, and the upload in the
\* request model.
ReqIdle ==
  /\ host = "" /\ regionMap = <<>> /\ op = None /\ bucketName = ""
  /\ statusCode = 0 /\ loc = NotSent /\ main = NotSent /\ region = ""
  /\ mrcbs = <<>> /\ gpo = None /\ rcbs = <<>> /\ wire = <<>>

PutQuiet ==
  /\ size = 0 /\ actual = 0 /\ serverUploadId = "" /\ serverParts = {}
  /\ PutIdle

ReqNext ==
  \/ call
  \/ locationError
  \/ locationResponse
  \/ locationParsed
  \/ requestError
  \/ requestResponse
  \/ requestErrorParsed
  \/ objectErrorParsed

\* No region lookup has been made.
RegIdle == lookups = <<>> /\ answered = <<>>

\* No removeIncompleteUpload call has been made.
RmIdle ==
  /\ rmObject = "" /\ rmServer = <<>> /\ rmPc = "new" /\ rmUploadId = ""
  /\ rmDel = NotSent /\ rmReqs = <<>> /\ rmCbs = <<>>

\* No listing has been started.
LsIdle ==
  /\ lsOp = None /\ lsReqs = <<>> /\ lsOut = <<>> /\ lsQueue = <<>>
  /\ lsThrown = None
  /\ lsFailure = [err |-> None, nout |-> 0, nreq |-> 0]

\* No request options have been built, no part size computed.
RoIdle == roHost = "" /\ roOpts = None /\ roOut = None
PsIdle == psSize = <<>> /\ psPart = <<>>

\* No client has been constructed, no Range header built, no bucket listing
\* or access control list asked for, no post policy made.
CtIdle ==
  /\ ctEndPoint = [protocol |-> "", hostname |-> <<>>, port |-> 0]
  /\ ctTransport = None
  /\ ctClient = [thrown |-> None, host |-> <<>>, port |-> 0,
                 protocol |-> "", minioStorage |-> FALSE, transport |-> None]
RgIdle == rgOffset = 0 /\ rgLength = 0 /\ rgCalled = FALSE /\ rgHeaders = {}
LbIdle == lbReq = NotSent /\ lbBody = <<>> /\ lbCbs = <<>>
AclIdle == aclGrants = <<>> /\ aclCanned = ""
PpIdle ==
  /\ ppExpiration = "" /\ ppConditions = <<>> /\ ppFormData = {}
  /\ ppNow = 0 /\ ppPending = 0 /\ ppThrown = None /\ ppCbs = <<>>
OthersIdle == CtIdle /\ RgIdle /\ LbIdle /\ AclIdle /\ PpIdle

\* An upload on a client with no request under way.
InitPut ==
  PutInit /\ ReqIdle /\ RegIdle /\ RmIdle /\ LsIdle /\ RoIdle /\ PsIdle
    /\ OthersIdle

\* A request on a client with no upload under way.
InitReq ==
  ReqInit /\ PutQuiet /\ RegIdle /\ RmIdle /\ LsIdle /\ RoIdle /\ PsIdle
    /\ OthersIdle

SpecPut == InitPut /\ [][PutNext]_vars

SpecReq == InitReq /\ [][ReqNext]_vars

----------------------------------------------------------------------------
(* The request pipeline: the properties. *)

Responded(r) == r.st \notin {"none", "sent"}
Success == Cb(None, "response")

\* C7: for every makeRequest call and every operation built on it
\* (getBucketRegion, getPartialObject) the caller's callback is invoked at
\* most once, with either an error or a value and never both, under every
\* interleaving of the transport's 'response' and 'error' events and the body
\* parsers' events.
C7_CallbackAtMostOnce ==
  /\ Len(mrcbs) <= 1
  /\ Len(rcbs) <= 1
  /\ \A c \in Range(mrcbs) \cup Range(rcbs) : (c.err = None) # (c.val = None)

\* C8: makeRequest with a non-zero expected status: a response whose status
\* equals it is handed to the caller as a success; a response with any other
\* status (a 2xx one too) is routed to the error parser and never handed to
\* the caller as a success: whatever the caller receives is an error, and
\* once the parser is done it has received the parsed error.
C8_ExpectedStatus ==
  (op = "makeRequest" /\ statusCode # 0 /\ Responded(main)) =>
     IF main.status = statusCode
       THEN main.st = "handed" /\ Success \in Range(mrcbs)
       ELSE /\ main.st \in {"parsing", "parsed"}
            /\ \A c \in Range(mrcbs) : IsError(c)
            /\ main.st = "parsed" => Cb("ServerError", None) \in Range(mrcbs)

C8_Witness ==
  /\ op = "makeRequest" /\ statusCode = 200 /\ main.status = 204
  /\ main.st = "parsed" /\ mrcbs = <<Cb("ServerError", None)>>

\* C9 as claimed: with expected status 0 a response is handed to the caller
\* as a success only if its status is 2xx or 3xx.
C9_Only2xx3xx ==
  (op \in {"makeRequest", "getPartialObject"} /\ statusCode = 0
     /\ Success \in Range(mrcbs))
    => main.status >= 200 /\ main.status < 400

\* C9 as amended: with expected status 0 makeRequest does not look at the
\* status: every response, a 4xx or 5xx one too, is handed to its caller as a
\* success and none is routed to the error parser.
C9_NoStatusCheck ==
  (op \in {"makeRequest", "getPartialObject"} /\ statusCode = 0
     /\ Responded(main))
    => main.st = "handed" /\ Success \in Range(mrcbs)

C9_Witness ==
  /\ op = "makeRequest" /\ statusCode = 0 /\ main.status = 404
  /\ mrcbs = <<Success>>

\* C10: getObject and getPartialObject hand the caller the object stream if
\* and only if the response status is 200 or 206; for every other status the
\* body goes to the error parser, the caller is handed no stream, and once
\* the parser is done the caller has received the error parsed from the body.
C10_StreamIff200or206 ==
  op = "getPartialObject" =>
    /\ \A c \in Range(rcbs) : c.val = "stream" => main.status \in {200, 206}
    /\ Responded(main) =>
         IF main.status \in {200, 206}
           THEN Cb(None, "stream") \in Range(rcbs) /\ gpo = None
           ELSE /\ \A c \in Range(rcbs) : IsError(c)
                /\ gpo \in {"parsing", "done"}
                /\ gpo = "done" => Cb("ServerError", None) \in Range(rcbs)

C10_Witness ==
  /\ op = "getPartialObject" /\ main.status = 204
  /\ gpo = "done" /\ rcbs = <<Cb("ServerError", None)>>

----------------------------------------------------------------------------
(* The region cache: several getBucketRegion calls on one client, made by   *)
(* its callers or by makeRequest (line 186), whose location requests may    *)
(* be in flight together.  The server's answer for a bucket may change      *)
(* between two location requests (the bucket was deleted and created again  *)
(* elsewhere); answered records the answers it has given.                   *)

RegionBuckets == {"b1", "b2"}
LocationStatuses == {200, 404}
LookupOps == {"makeRequest", "getBucketRegion"}

\* Lines 206-208: the region getBucketRegion reports without a request, ""
\* if it has to ask the server.  (Variants: no test of the host; no look at
\* the cache.)
resolveLocally_noHostCheck(h, map, b) ==
  IF b = "" THEN "us-east-1"
  ELSE IF map[b] # "" THEN map[b]
  ELSE ""

resolveLocally_noCache(h, map, b) ==
  IF h # "s3.amazonaws.com" THEN "us-east-1"
  ELSE IF b = "" THEN "us-east-1"
  ELSE ""

resolveLocally(h, map, b) ==
  IF h # "s3.amazonaws.com" THEN "us-east-1"
  ELSE IF b = "" THEN "us-east-1"
  ELSE IF map[b] # "" THEN map[b]
  ELSE ""

\* Line 230: an empty LocationConstraint stands for us-east-1.  (Variant: the
\* parsed value is used as it is.)
regionOfData_raw(data) == data
regionOfData(data) == IF data = "" THEN "us-east-1" ELSE data

\* Lines 221-233: what the response handler makes of a location response
\* with this status whose body the region parser could (ok) or could not
\* parse.  (Variant: a failed lookup falls back to the default region.)
locationResult_default(status, ok, data) ==
  IF status # 200 THEN Cb(None, "us-east-1")
  ELSE IF ~ok THEN Cb("ParseError", None)
  ELSE Cb(None, regionOfData(data))

locationResult(status, ok, data) ==
  IF status # 200 THEN Cb("ServerError", None)
  ELSE IF ~ok THEN Cb("ParseError", None)
  ELSE Cb(None, regionOfData(data))

CallIdle ==
  /\ op = None /\ bucketName = "" /\ statusCode = 0
  /\ loc = NotSent /\ main = NotSent /\ region = ""
  /\ mrcbs = <<>> /\ gpo = None /\ rcbs = <<>> /\ wire = <<>>

\* The client after construction (line 105: the cache is empty).
RegionInit ==
  /\ host \in Hosts
  /\ regionMap = [b \in RegionBuckets |-> ""]
  /\ lookups = <<>>
  /\ answered = [b \in RegionBuckets |-> {}]

InFlight(l) == l.st \in {"sent", "responded"}

\* The regions that finished location requests for bucket b have produced.
Succeeded(b) ==
  UNION {{c.val : c \in Range(lookups[i].cbs)} :
           i \in {j \in 1..Len(lookups) :
                    lookups[j].bucket = b /\ lookups[j].st = "parsed"}}
    \ {None}

\* getBucketRegion is called, by the client's user or by makeRequest: it
\* reports a region at once or sends GET /bucket?location.  prior and
\* pending record what had happened for the bucket when the call was made.
lookup ==
  /\ Len(lookups) < MaxLookups
  /\ \E o \in LookupOps, b \in RegionBuckets \cup {""} :
       LET r == resolveLocally(host, regionMap, b)
       IN lookups' = Append(lookups,
            [op |-> o, bucket |-> b,
             st |-> IF r # "" THEN "local" ELSE "sent",
             status |-> 0, errored |-> FALSE, answer |-> None,
             cbs |-> IF r # "" THEN <<Cb(None, r)>> ELSE <<>>,
             prior |-> IF b = "" THEN {} ELSE Succeeded(b),
             pending |-> \E i \in 1..Len(lookups) :
                           lookups[i].bucket = b /\ InFlight(lookups[i])])
  /\ UNCHANGED <<host, regionMap, answered>>
  /\ UNCHANGED notReg

\* A location request emits 'error' (line 217), before a response or after
\* it.
lookupError ==
  /\ \E i \in 1..Len(lookups) :
       /\ lookups[i].st \in {"sent", "responded", "parsed"}
       /\ ~lookups[i].errored
       /\ lookups' = [lookups EXCEPT ![i] =
            [@ EXCEPT !.errored = TRUE,
                      !.cbs = Append(@, Cb("NetworkError", None))]]
  /\ UNCHANGED <<host, regionMap, answered>>
  /\ UNCHANGED notReg

\* A location request emits 'response' (line 218).
lookupResponse ==
  /\ \E i \in 1..Len(lookups), status \in LocationStatuses :
       /\ lookups[i].st = "sent" /\ ~lookups[i].errored
       /\ lookups' = [lookups EXCEPT ![i] =
            [@ EXCEPT !.st = "responded", !.status = status]]
  /\ UNCHANGED <<host, regionMap, answered>>
  /\ UNCHANGED notReg

\* The body of a location response has been parsed (lines 221-233): an
\* error is reported, a region is cached and reported.
lookupParsed ==
  /\ \E i \in 1..Len(lookups), ok \in BOOLEAN, data \in Regions \cup {""} :
       LET l == lookups[i]
           res == locationResult(l.status, ok, data)
       IN /\ l.st = "responded"
          /\ (l.status # 200 \/ ~ok) => data = ""
          /\ l.status # 200 => ~ok
          /\ lookups' = [lookups EXCEPT ![i] =
               [@ EXCEPT !.st = "parsed",
                         !.answer = IF l.status = 200 /\ ok THEN data ELSE None,
                         !.cbs = Append(@, res)]]
          /\ regionMap' = IF res.err = None
                            THEN [regionMap EXCEPT ![l.bucket] = res.val]
                            ELSE regionMap
          /\ answered' = IF l.status = 200 /\ ok
                           THEN [answered EXCEPT ![l.bucket] = @ \cup {data}]
                           ELSE answered
  /\ host' = host
  /\ UNCHANGED notReg

RegionNext ==
  \/ lookup
  \/ lookupError
  \/ lookupResponse
  \/ lookupParsed

InitRegion ==
  RegionInit /\ CallIdle /\ PutQuiet /\ RmIdle /\ LsIdle /\ RoIdle /\ PsIdle
    /\ OthersIdle

SpecRegion == InitRegion /\ [][RegionNext]_vars

----------------------------------------------------------------------------
(* The region cache: the properties. *)

Amazon == host = "s3.amazonaws.com"

\* The server has given one answer at most for the bucket.
Stable(b) == Cardinality(answered[b]) <= 1

\* The region a LocationConstraint value stands for.
RegionFor(data) == IF data = "" THEN "us-east-1" ELSE data

C12_FailedLookup ==
  /\ [](\A i \in 1..Len(lookups) :
          LET l == lookups[i]
          IN /\ (l.st = "sent" /\ l.errored) =>
                  l.cbs = <<Cb("NetworkError", None)>>
             /\ (l.st = "parsed" /\ l.status # 200) =>
                  /\ Cb("ServerError", None) \in Range(l.cbs)
                  /\ \A c \in Range(l.cbs) : IsError(c))
  /\ [][(\E i \in 1..Len(lookups) :
           \/ /\ lookups[i].st = "sent" /\ ~lookups[i].errored
              /\ lookups'[i].errored
           \/ /\ lookups[i].st = "responded" /\ lookups[i].status # 200
              /\ lookups'[i].st = "parsed")
          => regionMap' = regionMap]_vars
  /\ [][Len(lookups') = Len(lookups) + 1 =>
          LET l == lookups'[Len(lookups')]
          IN (Amazon /\ l.bucket # "" /\ regionMap[l.bucket] = "")
               => l.st = "sent"]_vars

C12_Witness ==
  /\ Len(lookups) = 2
  /\ lookups[1].bucket = "b1" /\ lookups[1].st = "parsed"
  /\ lookups[1].status = 404 /\ lookups[1].cbs = <<Cb("ServerError", None)>>
  /\ lookups[2].bucket = "b1" /\ lookups[2].st = "sent"
  /\ \A b \in RegionBuckets : regionMap[b] = ""

\* C13: the region cache is monotonic: once regionMap maps a bucket to a
\* region, no step maps it to another region or removes the entry.
C13_Monotonic ==
  [][\A b \in RegionBuckets :
       regionMap[b] # "" => regionMap'[b] = regionMap[b]]_vars

\* C14: on an Amazon endpoint, when lookups for the same uncached bucket are
\* in flight together, each caller whose lookup is answered receives the
\* region of the answer, and once none is in flight the cache entry is the
\* region a single lookup would have produced.  (The server's answer for the
\* bucket is taken not to change between location requests.)
C14_ConcurrentLookups ==
  Amazon =>
    \A b \in RegionBuckets :
      Stable(b) =>
        /\ \A i \in 1..Len(lookups) :
             LET l == lookups[i]
             IN (l.bucket = b /\ l.st = "parsed" /\ l.answer # None) =>
                  /\ RegionFor(l.answer) \in Regions
                  /\ Cb(None, RegionFor(l.answer)) \in Range(l.cbs)
        /\ (\A i \in 1..Len(lookups) :
              lookups[i].bucket = b => ~InFlight(lookups[i]))
             => \A a \in answered[b] : regionMap[b] = RegionFor(a)

C14_Witness ==
  /\ Len(lookups) = 2
  /\ \A i \in 1..2 :
       /\ lookups[i].bucket = "b1" /\ lookups[i].st = "parsed"
       /\ lookups[i].cbs = <<Cb(None, "eu-west-1")>>
  /\ lookups[2].pending
  /\ regionMap["b1"] = "eu-west-1"

\* C15: on a self-hosted endpoint getBucketRegion reports us-east-1 for
\* every bucket at once, sends no request, and the region cache stays empty.
C15_SelfHosted ==
  ~Amazon =>
    /\ \A b \in RegionBuckets : regionMap[b] = ""
    /\ \A i \in 1..Len(lookups) :
         /\ lookups[i].st = "local"
         /\ lookups[i].cbs = <<Cb(None, "us-east-1")>>

C15_Witness ==
  /\ ~Amazon /\ Len(lookups) = 2
  /\ lookups[1].bucket = "b1" /\ lookups[2].bucket = "b2"

----------------------------------------------------------------------------
(* removeIncompleteUpload: the waterfall of lines 497-504.  findUploadId   *)
(* (multipart.js) is the environment: it reports an error, the upload id   *)
(* the server holds for the key, or no upload id (the value putObject       *)
(* tests at line 649).  The DELETE goes through makeRequest with expected  *)
(* status 204, on a client whose region is resolved without a request.     *)

Objects == {"o1", "o2"}
UploadIds == {"upload-1", "upload-2"}

\* The upload id findUploadId passes on when the key has no upload.
Undefined == "undefined"

RemoveInit ==
  /\ rmObject \in Objects
  /\ rmServer \in [Objects -> UploadIds \cup {""}]
  /\ rmPc = "new" /\ rmUploadId = "" /\ rmDel = NotSent
  /\ rmReqs = <<>> /\ rmCbs = <<>>

\* The final callback of the waterfall, which async runs once.
removeCallback(e) ==
  IF rmCbs = <<>>
    THEN /\ rmCbs' = <<Cb(e, IF e = None THEN "response" ELSE None)>>
         /\ rmPc' = IF e = None THEN "done" ELSE "failed"
    ELSE UNCHANGED <<rmCbs, rmPc>>

\* removeIncompleteUpload is called: the first task calls findUploadId.
removeIncompleteUpload ==
  /\ rmPc = "new"
  /\ rmPc' = "finding"
  /\ UNCHANGED <<rmObject, rmServer, rmUploadId, rmDel, rmReqs, rmCbs>>
  /\ UNCHANGED notRm

\* The second task (lines 499-503), entered with what findUploadId found: it
\* sends DELETE ?uploadId=<uploadId>, whatever the upload id is.
deleteUpload(id) ==
  /\ rmDel' = Sent
  /\ rmReqs' = Append(rmReqs, [kind |-> "Delete", uploadId |-> id])
  /\ rmPc' = "deleting"
  /\ rmCbs' = rmCbs

\* findUploadId calls back: with an error the waterfall ends, otherwise the
\* second task runs.
removeFindUploadIdDone ==
  /\ rmPc = "finding"
  /\ \/ /\ removeCallback("ListError")
        /\ UNCHANGED <<rmUploadId, rmDel, rmReqs>>
     \/ LET id == IF rmServer[rmObject] = "" THEN Undefined
                  ELSE rmServer[rmObject]
        IN /\ rmUploadId' = id
           /\ deleteUpload(id)
  /\ UNCHANGED <<rmObject, rmServer>>
  /\ UNCHANGED notRm

\* The DELETE request emits 'error' (line 200).
removeDeleteError ==
  /\ rmDel.st # "none" /\ ~rmDel.errored
  /\ rmDel' = [rmDel EXCEPT !.errored = TRUE]
  /\ removeCallback("NetworkError")
  /\ UNCHANGED <<rmObject, rmServer, rmUploadId, rmReqs>>
  /\ UNCHANGED notRm

\* The DELETE request emits 'response' (lines 189-199, expected status 204).
removeDeleteResponse ==
  /\ rmDel.st = "sent" /\ ~rmDel.errored
  /\ \E status \in Statuses :
       IF responseDispatch(204, status) = "success"
         THEN /\ rmDel' = [rmDel EXCEPT !.st = "handed", !.status = status]
              /\ removeCallback(None)
         ELSE /\ rmDel' = [rmDel EXCEPT !.st = "parsing", !.status = status]
              /\ UNCHANGED <<rmCbs, rmPc>>
  /\ UNCHANGED <<rmObject, rmServer, rmUploadId, rmReqs>>
  /\ UNCHANGED notRm

\* The error parser of the DELETE response emits 'error'.
removeDeleteErrorParsed ==
  /\ rmDel.st = "parsing"
  /\ rmDel' = [rmDel EXCEPT !.st = "parsed"]
  /\ removeCallback("ServerError")
  /\ UNCHANGED <<rmObject, rmServer, rmUploadId, rmReqs>>
  /\ UNCHANGED notRm

RemoveNext ==
  \/ removeIncompleteUpload
  \/ removeFindUploadIdDone
  \/ removeDeleteError
  \/ removeDeleteResponse
  \/ removeDeleteErrorParsed

InitRemove ==
  RemoveInit /\ PutQuiet /\ ReqIdle /\ RegIdle /\ LsIdle /\ RoIdle /\ PsIdle
    /\ OthersIdle

SpecRemove == InitRemove /\ [][RemoveNext]_vars

\* C16: removeIncompleteUpload: when findUploadId reports no in-progress
\* upload for the key, no DELETE request is issued and the callback is called
\* with success; when an upload id is found, exactly one DELETE, with that
\* upload id, is issued.
C16_DeleteOnlyIfFound ==
  (rmPc \notin {"new", "finding"} /\ rmUploadId # "") =>
     IF rmServer[rmObject] = ""
       THEN rmReqs = <<>> /\ rmCbs = <<Cb(None, "response")>>
       ELSE rmReqs = <<[kind |-> "Delete", uploadId |-> rmServer[rmObject]]>>

----------------------------------------------------------------------------
(* Listings: listObjects (lines 730-760, over listObjectsOnce, lines       *)
(* 679-715) and listIncompleteUploads (lines 324-365).  A page request is  *)
(* a makeRequest with expected status 200 whose body is piped into the     *)
(* page parser; listIncompleteUploadsOnce and listAllParts (multipart.js)  *)
(* are the environment, the former taken to behave as listObjectsOnce.     *)
(* The server decides what each page holds.  Markers are page numbers, 0   *)
(* for none.                                                               *)

ListOps == {"listObjects", "listIncompleteUploads"}
PageStatuses == {200, 404}

\* An event of the caller's stream: a record, an error or the end.
Ev(k, v) == [kind |-> k, val |-> v]
NoPage == [objects |-> <<>>, isTruncated |-> FALSE, nextMarker |-> 0]

\* Page k of the listing, with n records.
Page(k, n, t) ==
  [objects |-> [j \in 1..n |-> <<k, j>>],
   isTruncated |-> t,
   nextMarker |-> IF t THEN k ELSE 0]

PageRequest(marker) ==
  [marker |-> marker, st |-> "sent", errored |-> FALSE, page |-> NoPage]

DataEvents(records) == [j \in 1..Len(records) |-> Ev("data", records[j])]

\* Lines 751-755 and 355-359: after a page, the next one or the end.
\* (Variant: the end whatever the page says.)
afterPage_end(page) == "end"
afterPage(page) == IF page.isTruncated THEN "next" ELSE "end"

\* A step of the listing reports an error and the 'error' listener (lines
\* 339 and 746) emits it on the caller's stream.
emitError(e) ==
  /\ lsOut' = Append(lsOut, Ev("error", <<e>>))
  /\ lsFailure' = IF lsFailure.err = None
                    THEN [err |-> e, nout |-> Len(lsOut), nreq |-> Len(lsReqs)]
                    ELSE lsFailure

\* A page is finished: listNext with its marker, or the end of the stream.
\* out is the caller's stream with what the page has added to it.
pageDone(reqs1, page, out) ==
  IF afterPage(page) = "next"
    THEN /\ lsReqs' = Append(reqs1, PageRequest(page.nextMarker))
         /\ lsOut' = out
    ELSE /\ lsReqs' = reqs1
         /\ lsOut' = Append(out, Ev("end", <<>>))

\* The listing is called: listNext() requests the first page.
listCall ==
  /\ lsOp = None
  /\ \E o \in ListOps : lsOp' = o
  /\ lsReqs' = <<PageRequest(0)>>
  /\ UNCHANGED <<lsOut, lsQueue, lsThrown, lsFailure>>
  /\ UNCHANGED notLs

\* A page request emits 'error' (line 200), before a response or after it.
listRequestError ==
  /\ \E i \in 1..Len(lsReqs) :
       /\ ~lsReqs[i].errored
       /\ lsReqs' = [lsReqs EXCEPT ![i].errored = TRUE]
  /\ emitError("NetworkError")
  /\ UNCHANGED <<lsOp, lsQueue, lsThrown>>
  /\ UNCHANGED notLs

\* A page request emits 'response' (lines 189-199, expected status 200).
listResponse ==
  /\ \E i \in 1..Len(lsReqs), status \in PageStatuses :
       /\ lsReqs[i].st = "sent" /\ ~lsReqs[i].errored
       /\ lsReqs' = [lsReqs EXCEPT ![i].st =
            IF responseDispatch(200, status) = "success"
              THEN "parsing" ELSE "errparsing"]
  /\ UNCHANGED <<lsOp, lsOut, lsQueue, lsThrown, lsFailure>>
  /\ UNCHANGED notLs

\* The error parser of a page response emits 'error'.
listErrorParsed ==
  /\ \E i \in 1..Len(lsReqs) :
       /\ lsReqs[i].st = "errparsing"
       /\ lsReqs' = [lsReqs EXCEPT ![i].st = "failed"]
  /\ emitError("ServerError")
  /\ UNCHANGED <<lsOp, lsQueue, lsThrown>>
  /\ UNCHANGED notLs

\* The page parser emits 'error'.
listParseError ==
  /\ \E i \in 1..Len(lsReqs) :
       /\ lsReqs[i].st = "parsing"
       /\ lsReqs' = [lsReqs EXCEPT ![i].st = "failed"]
  /\ emitError("ParseError")
  /\ UNCHANGED <<lsOp, lsQueue, lsThrown>>
  /\ UNCHANGED notLs

\* The page parser emits the page as 'data'.  listObjects (lines 747-756)
\* pushes its objects and goes on; listIncompleteUploads (lines 340-349)
\* starts async.eachSeries over its uploads, which is over at once when
\* there is none.
listPage ==
  /\ \E i \in 1..Len(lsReqs), n \in 0..MaxRecords, t \in BOOLEAN :
       LET page == Page(i, n, t)
           reqs1 == [lsReqs EXCEPT ![i].st = "parsed", ![i].page = page]
       IN /\ lsReqs[i].st = "parsing"
          /\ t => i < MaxPages
          /\ IF lsOp = "listObjects"
               THEN /\ pageDone(reqs1, page, lsOut \o DataEvents(page.objects))
                    /\ lsQueue' = lsQueue
               ELSE IF n = 0
                 THEN pageDone(reqs1, page, lsOut) /\ lsQueue' = lsQueue
                 ELSE /\ lsQueue' = [j \in 1..n |->
                                       [upload |-> page.objects[j], page |-> page]]
                      /\ lsReqs' = reqs1
                      /\ lsOut' = lsOut
  /\ UNCHANGED <<lsOp, lsThrown, lsFailure>>
  /\ UNCHANGED notLs

\* listAllParts calls back for the upload at the head of the series with its
\* parts (lines 345-347): the upload is written to the caller's stream, and
\* after the last one the series' final callback goes on (lines 355-359).
listAllPartsOk ==
  /\ lsQueue # <<>>
  /\ LET out == Append(lsOut, Ev("data", Head(lsQueue).upload))
     IN IF Len(lsQueue) = 1
          THEN pageDone(lsReqs, Head(lsQueue).page, out)
          ELSE lsReqs' = lsReqs /\ lsOut' = out
  /\ lsQueue' = Tail(lsQueue)
  /\ UNCHANGED <<lsOp, lsThrown, lsFailure>>
  /\ UNCHANGED notLs

\* listAllParts calls back with an error (line 344): the series' final
\* callback evaluates dummyTransformer.emit('error', e) (line 351), where no
\* e is in scope: a ReferenceError is thrown, nothing is emitted and the
\* stream is not ended.
listAllPartsError ==
  /\ lsQueue # <<>>
  /\ lsQueue' = <<>>
  /\ lsThrown' = "ReferenceError"
  /\ lsFailure' = IF lsFailure.err = None
                    THEN [err |-> "PartsError", nout |-> Len(lsOut),
                          nreq |-> Len(lsReqs)]
                    ELSE lsFailure
  /\ UNCHANGED <<lsOp, lsReqs, lsOut>>
  /\ UNCHANGED notLs

ListNext ==
  \/ listCall
  \/ listRequestError
  \/ listResponse
  \/ listErrorParsed
  \/ listParseError
  \/ listPage
  \/ listAllPartsOk
  \/ listAllPartsError

InitList ==
  LsIdle /\ PutQuiet /\ ReqIdle /\ RegIdle /\ RmIdle /\ RoIdle /\ PsIdle
    /\ OthersIdle

SpecList == InitList /\ [][ListNext]_vars

----------------------------------------------------------------------------
(* Listings: the properties. *)

RECURSIVE RecordsOf(_)
\* The records of the pages received, in page order.
RecordsOf(rs) ==
  IF rs = <<>> THEN <<>>
  ELSE (IF Head(rs).st = "parsed" THEN Head(rs).page.objects ELSE <<>>)
         \o RecordsOf(Tail(rs))

IsData(ev) == ev.kind = "data"
IsRecordOrEnd(ev) == ev.kind \in {"data", "end"}
Ended == Ev("end", <<>>) \in Range(lsOut)

\* C17: listObjects requests its pages one at a time, each with the
\* nextMarker of the page before, emits every object of every page received
\* in page order, and signals the end once, right after the first page
\* whose isTruncated is false: no page is requested and no record is
\* emitted after it.
C17_Pagination ==
  lsOp = "listObjects" =>
    LET stream == SelectSeq(lsOut, IsRecordOrEnd)
        records == SelectSeq(lsOut, IsData)
        n == Len(lsReqs)
    IN /\ lsReqs[1].marker = 0
       /\ \A i \in 1..(n - 1) :
            /\ lsReqs[i].st = "parsed" /\ lsReqs[i].page.isTruncated
            /\ lsReqs[i + 1].marker = lsReqs[i].page.nextMarker
       /\ records = DataEvents(RecordsOf(lsReqs))
       /\ Ended <=> (lsReqs[n].st = "parsed" /\ ~lsReqs[n].page.isTruncated)
       /\ Ended => stream = Append(records, Ev("end", <<>>))

C17_Witness ==
  /\ lsOp = "listObjects" /\ Len(lsReqs) = 2
  /\ lsOut = <<Ev("data", <<1, 1>>), Ev("data", <<1, 2>>),
               Ev("data", <<2, 1>>), Ev("end", <<>>)>>

\* C18: when a step of a listing fails (a page request of listObjects or
\* listIncompleteUploads, or listAllParts for an upload of a page) the
\* caller's stream ends with that error: the error the step reported is
\* emitted, and after it no page is requested and nothing is emitted.
C18_ErrorTerminates ==
  lsFailure.err # None =>
    /\ Len(lsOut) = lsFailure.nout + 1
    /\ lsOut[Len(lsOut)] = Ev("error", <<lsFailure.err>>)
    /\ Len(lsReqs) = lsFailure.nreq

----------------------------------------------------------------------------
(* getRequestOptions (lines 108-142).  Host and path are sequences of      *)
(* pieces of text; an object key is a sequence of characters.  An absent   *)
(* bucket, key or query is the empty one, which the source's tests treat   *)
(* as absent too.  The operations that pass a key validate the bucket, so  *)
(* a key comes with a bucket.  uriResourceEscape (helpers.js) is taken     *)
(* from the specification: it percent-encodes every character other than   *)
(* the unreserved ones and the slash.                                      *)

KeyChars == {"a", "/", " ", "+"}
Keys == UNION {[1..n -> KeyChars] : n \in 1..MaxKeyLen}
Queries == {"", "acl", "max-keys=1000&prefix=a"}

escapeChar(c) ==
  IF c = " " THEN "%20" ELSE IF c = "+" THEN "%2B" ELSE c

uriResourceEscape(key) == [i \in 1..Len(key) |-> escapeChar(key[i])]

Opts(b, o, q) == [bucketName |-> b, objectName |-> o, query |-> q]
NoOptions == [host |-> <<>>, path |-> <<>>]

\* Variant: path-style addressing on every endpoint.
getRequestOptions_pathStyle(h, opts) ==
  LET objectName == IF opts.objectName # <<>>
                      THEN uriResourceEscape(opts.objectName) ELSE <<>>
      path == IF objectName # <<>>
                THEN <<"/", opts.bucketName, "/">> \o objectName
              ELSE IF opts.bucketName # "" THEN <<"/", opts.bucketName>>
              ELSE <<"/">>
  IN [host |-> <<h>>,
      path |-> IF opts.query # "" THEN path \o <<"?", opts.query>> ELSE path]

getRequestOptions(h, opts) ==
  LET minioStorage == h # "s3.amazonaws.com"
      bucket == opts.bucketName
      objectName == IF opts.objectName # <<>>
                      THEN uriResourceEscape(opts.objectName) ELSE <<>>
      reqHost == IF minioStorage THEN <<h>>
                 ELSE IF bucket # "" THEN <<bucket, ".", h>>
                 ELSE <<h>>
      path == IF minioStorage
                THEN IF objectName # <<>>
                       THEN <<"/", bucket, "/">> \o objectName
                     ELSE IF bucket # "" THEN <<"/", bucket>>
                     ELSE <<"/">>
                ELSE IF objectName # <<>> THEN <<"/">> \o objectName
                     ELSE <<"/">>
  IN [host |-> reqHost,
      path |-> IF opts.query # "" THEN path \o <<"?", opts.query>> ELSE path]

OptionsInit ==
  /\ roHost \in Hosts
  /\ roOpts \in {Opts("", <<>>, q) : q \in Queries}
                  \cup {Opts(b, o, q) :
                          b \in Buckets, o \in Keys \cup {<<>>}, q \in Queries}
  /\ roOut = NoOptions

\* An operation of the client builds the options of its request.
buildRequestOptions ==
  /\ roOut = NoOptions
  /\ roOut' = getRequestOptions(roHost, roOpts)
  /\ UNCHANGED <<roHost, roOpts>>
  /\ UNCHANGED notRo

OptionsNext == buildRequestOptions

InitOptions ==
  OptionsInit /\ PutQuiet /\ ReqIdle /\ RegIdle /\ RmIdle /\ LsIdle /\ PsIdle
    /\ OthersIdle

SpecOptions == InitOptions /\ [][OptionsNext]_vars

\* C19: for every request built by getRequestOptions: on a self-hosted
\* endpoint the host is the configured host and the path is /bucket or
\* /bucket/escapedObject (/ without a bucket); on the Amazon endpoint with a
\* bucket the host is bucket.configuredHost, the path is / followed by the
\* escaped object (or just /) and the bucket is no piece of the path; the
\* query, if any, is appended as ?query in both styles.
C19_Addressing ==
  roOut # NoOptions =>
    LET b == roOpts.bucketName
        escaped == [i \in 1..Len(roOpts.objectName) |->
                      IF roOpts.objectName[i] = " " THEN "%20"
                      ELSE IF roOpts.objectName[i] = "+" THEN "%2B"
                      ELSE roOpts.objectName[i]]
        query == IF roOpts.query = "" THEN <<>> ELSE <<"?", roOpts.query>>
    IN IF roHost # "s3.amazonaws.com"
         THEN /\ roOut.host = <<roHost>>
              /\ roOut.path =
                   (IF b = "" THEN <<"/">>
                    ELSE IF escaped = <<>> THEN <<"/", b>>
                    ELSE <<"/", b, "/">> \o escaped) \o query
         ELSE /\ roOut.path = <<"/">> \o escaped \o query
              /\ b # "" => /\ roOut.host = <<b, ".", roHost>>
                           /\ b \notin Range(roOut.path)

C19_Witness ==
  /\ roHost = "s3.amazonaws.com"
  /\ roOpts = Opts("b1", <<"a", " ">>, "acl")
  /\ roOut = [host |-> <<"b1", ".", "s3.amazonaws.com">>,
              path |-> <<"/", "a", "%20", "?", "acl">>]

----------------------------------------------------------------------------
(* calculatePartSize (lines 626-636) for sizes up to 5 TiB.  A size is     *)
(* written with three digits of base 65536, the most significant first,    *)
(* so that every intermediate value stays within the integers TLC          *)
(* evaluates; the arithmetic is exact.                                     *)

LimbBase == 256 * 256

\* The number n (below 2^31) in three digits.
Wide(n) == <<0, n \div LimbBase, n % LimbBase>>

WLess(a, b) ==
  \/ a[1] < b[1]
  \/ a[1] = b[1] /\ a[2] < b[2]
  \/ a[1] = b[1] /\ a[2] = b[2] /\ a[3] < b[3]

WMax(a, b) == IF WLess(a, b) THEN b ELSE a

\* Math.floor(a / d) for a divisor d below 2^15.
WDiv(a, d) ==
  LET r1 == a[1] % d
      n2 == r1 * LimbBase + a[2]
      r2 == n2 % d
      n3 == r2 * LimbBase + a[3]
  IN <<a[1] \div d, n2 \div d, n3 \div d>>

\* a * m for a factor m below 2^15.
WMul(a, m) ==
  LET lo == a[3] * m
      mid == a[2] * m + lo \div LimbBase
  IN <<a[1] * m + mid \div LimbBase, mid % LimbBase, lo % LimbBase>>

\* Variant: the size divided by 10001.
calculatePartSizeWide_10001(sz) ==
  LET minimumPartSize == Wide(5 * 1024 * 1024)
      maximumPartSize == WMul(Wide(5 * 1025 * 1024), 1024)
      partSize == WDiv(sz, 10001)
  IN IF WLess(maximumPartSize, partSize)
       THEN maximumPartSize
       ELSE WMax(minimumPartSize, partSize)

calculatePartSizeWide(sz) ==
  LET minimumPartSize == Wide(5 * 1024 * 1024)
      maximumPartSize == WMul(Wide(5 * 1025 * 1024), 1024)
      partSize == WDiv(sz, 9999)
  IN IF WLess(maximumPartSize, partSize)
       THEN maximumPartSize
       ELSE WMax(minimumPartSize, partSize)

WFiveMiB == Wide(FiveMiB)
WFiveGiB == WMul(Wide(FiveMiB), 1024)
WFiveTiB == WMul(WFiveGiB, 1024)

\* Declared sizes above 5 MiB and up to 5 TiB: around 5 MiB, around
\* 9999 * 5 MiB (<<12, 13488, 0>>), where the part size leaves its minimum,
\* and up to 5 TiB (<<1280, 0, 0>>).
WideSizes ==
  {sz \in ({0, 1, 12, 13, 640, 1279} \X {0, 80, 81, 13487, 13488, 65535}
             \X {0, 1, 65535}) \cup {WFiveTiB} :
     WLess(WFiveMiB, sz) /\ ~WLess(WFiveTiB, sz)}

PartSizeInit == psSize \in WideSizes /\ psPart = <<>>

\* The third task of putObject computes the part size (line 660).
computePartSize ==
  /\ psPart = <<>>
  /\ psPart' = calculatePartSizeWide(psSize)
  /\ UNCHANGED psSize
  /\ UNCHANGED notPs

PartSizeNext == computePartSize

InitPartSize ==
  PartSizeInit /\ PutQuiet /\ ReqIdle /\ RegIdle /\ RmIdle /\ LsIdle /\ RoIdle
    /\ OthersIdle

SpecPartSize == InitPartSize /\ [][PartSizeNext]_vars

\* C20: for every declared size above 5 MiB and up to 5 TiB the part size
\* chosen by putObject is at least 5 MiB and at most 5 GiB, and the number of
\* parts, ceil(size / partSize), is at most 10 000.
C20_PartSizeBounds ==
  psPart # <<>> =>
    /\ WLess(WFiveMiB, psSize) /\ ~WLess(WFiveTiB, psSize)
    /\ ~WLess(psPart, WFiveMiB)
    /\ ~WLess(WFiveGiB, psPart)
    /\ ~WLess(WMul(psPart, 10000), psSize)

C20_Witness ==
  /\ psSize = <<1280, 0, 0>>
  /\ psPart = <<0, 8389, 29290>>

(* -------- calculatePartSize on sizes of any magnitude ----------------- *)

\* Declared sizes from 0 to beyond 9999 * (5 GiB + 5 MiB): up to 5 MiB,
\* around 5 TiB (<<1280, 0, 0>>), around 9999 * 5 GiB (<<12498, 49152, 0>>),
\* where floor(size / 9999) passes 5 GiB, and around 9999 * (5 GiB + 5 MiB)
\* (<<12510, 63007, 45056>>), where it passes the maximum of line 628.
AnySizes ==
  {0, 1280, 12498, 12499, 12510, 12511, 20000}
    \X {0, 49152, 63007, 65535} \X {0, 9998, 9999, 45056, 65535}

PartSizeAnyInit == psSize \in AnySizes /\ psPart = <<>>

InitPartSizeAny ==
  PartSizeAnyInit /\ PutQuiet /\ ReqIdle /\ RegIdle /\ RmIdle /\ LsIdle
    /\ RoIdle
    /\ OthersIdle

SpecPartSizeAny == InitPartSizeAny /\ [][PartSizeNext]_vars

\* floor(size / 9999) clamped to [5 MiB, 5 GiB].
ClampedPartSize(sz) ==
  LET q == WDiv(sz, 9999)
  IN IF WLess(q, WFiveMiB) THEN WFiveMiB
     ELSE IF WLess(WFiveGiB, q) THEN WFiveGiB
     ELSE q

\* C21: for every declared size, with no upper limit, the part size is
\* floor(size / 9999) clamped to the range from 5 MiB to 5 GiB
\* (5 * 1024 * 1024 * 1024 bytes); it is never above 5 GiB.
C21_ClampedToFiveGiB ==
  psPart # <<>> =>
    /\ psPart = ClampedPartSize(psSize)
    /\ ~WLess(WFiveGiB, psPart)

-----------------------------------------------------------------------------
(* Construction of a Client (lines 41-106).                                *)
(*                                                                         *)
(* A host name is the sequence of its pieces: the words amazonaws, com,    *)
(* minio, io, and the single characters between and before them. Every     *)
(* piece has at least one character.                                       *)

HostChars == {"s", "3", "x", ".", "-"}

S3Host == <<"s", "3", ".", "amazonaws", ".", "com">>

HostPrefixes == {<<>>, <<"s", "3", ".">>, <<"x">>, <<"x", ".">>}
HostEndings ==
  {<<"amazonaws", ".", "com">>, <<"amazonaws", "-", "com">>,
   <<"minio", ".", "io">>}
EndPointHosts == {p \o e : p \in HostPrefixes, e \in HostEndings}

\* The protocols Url.parse may report, the port it reports (0 stands for
\* none given: +null is 0), and the transports a caller may pass.
Protocols == {"http:", "https:", "ftp:"}
Ports == {0, 9000}
Transports == {None, "MockTransport"}

\* host.match('.amazonaws.com$') (line 50): a regular expression, in which
\* each dot stands for any one character; it asks for one character, then
\* amazonaws, one character, and com at the end of the host.
matchesAmazonPattern(h) ==
  LET n == Len(h)
  IN /\ n >= 4
     /\ h[n - 2] = "amazonaws"
     /\ h[n - 1] \in HostChars
     /\ h[n] = "com"

Thrown(e) ==
  [thrown |-> e, host |-> <<>>, port |-> 0, protocol |-> "",
   minioStorage |-> FALSE, transport |-> None]

Built(h, prt, proto, minio, tr) ==
  [thrown |-> "", host |-> h, port |-> prt, protocol |-> proto,
   minioStorage |-> minio, transport |-> tr]

\* new Client(params, transport), from the parsed endpoint on (lines 42-105).
Client(parsedUrl, transport) ==
  LET h == parsedUrl.hostname
      amazon == matchesAmazonPattern(h)
  IN IF amazon /\ h # S3Host
       THEN Thrown("InvalidEndPointException")
       ELSE IF transport # None
         THEN Built(h, parsedUrl.port, "", ~amazon, transport)
         ELSE CASE parsedUrl.protocol = "http:" ->
                     Built(h, IF parsedUrl.port = 0 THEN 80 ELSE parsedUrl.port,
                           "http:", ~amazon, "Http")
                [] parsedUrl.protocol = "https:" ->
                     Built(h, IF parsedUrl.port = 0 THEN 443 ELSE parsedUrl.port,
                           "https:", ~amazon, "Https")
                [] OTHER -> Thrown("InvalidProtocolException")

ClientInit ==
  /\ ctEndPoint \in [protocol : Protocols, hostname : EndPointHosts,
                     port : Ports]
  /\ ctTransport \in Transports
  /\ ctClient = Thrown(None)

\* The constructor runs.
construct ==
  /\ ctClient.thrown = None
  /\ ctClient' = Client(ctEndPoint, ctTransport)
  /\ UNCHANGED <<ctEndPoint, ctTransport>>
  /\ UNCHANGED notCt

ClientNext == construct

InitClient ==
  ClientInit /\ PutQuiet /\ ReqIdle /\ RegIdle /\ RmIdle /\ LsIdle /\ RoIdle
    /\ PsIdle /\ RgIdle /\ LbIdle /\ AclIdle /\ PpIdle

SpecClient == InitClient /\ [][ClientNext]_vars

Constructed == ctClient.thrown = ""

EndsInAmazon(h) ==
  Len(h) >= 3 /\ SubSeq(h, Len(h) - 2, Len(h)) = <<"amazonaws", ".", "com">>

\* C22: a host that ends in amazonaws.com (the bare host amazonaws.com too)
\* is taken as Amazon: unless it is exactly s3.amazonaws.com the construction
\* fails with an invalid-endpoint exception, and s3.amazonaws.com gives a
\* client that is not path-style; every other host gives a path-style
\* (self-hosted) client and no invalid-endpoint exception.
C22_HostClassification ==
  ctClient.thrown # None =>
    LET h == ctEndPoint.hostname
    IN /\ (EndsInAmazon(h) /\ h # S3Host)
            => ctClient.thrown = "InvalidEndPointException"
       /\ (h = S3Host /\ Constructed) => ~ctClient.minioStorage
       /\ ~EndsInAmazon(h)
            => /\ ctClient.thrown # "InvalidEndPointException"
               /\ Constructed => ctClient.minioStorage

\* C23: a client is constructed only for the protocols http: and https:,
\* with the port given or else 80 and 443; any other protocol fails the
\* construction, with or without a transport argument; so a constructed
\* client has neither an empty protocol nor port 0.
C23_ProtocolAndPort ==
  ctClient.thrown # None =>
    /\ ctEndPoint.protocol \notin {"http:", "https:"} => ~Constructed
    /\ Constructed =>
         /\ ctClient.protocol = ctEndPoint.protocol
         /\ ctClient.port = (IF ctEndPoint.port # 0 THEN ctEndPoint.port
                             ELSE IF ctEndPoint.protocol = "http:" THEN 80
                             ELSE 443)
         /\ ctClient.protocol # ""
         /\ ctClient.port # 0

-----------------------------------------------------------------------------
(* The Range header of getPartialObject (lines 557-573).                   *)
(*                                                                         *)
(* A header value is the sequence of the pieces the template strings put   *)
(* together; the headers are a set of <<name, value>> pairs.               *)

MaxRange == 7

\* Variant: the last byte is taken to be offset + length.
getPartialObjectHeaders_pastEnd(offset, length) ==
  LET start == IF offset # 0 THEN <<"bytes=", offset, "-">>
               ELSE <<"bytes=", 0, "-">>
      range == IF offset # 0 \/ length # 0
                 THEN IF length # 0
                        THEN start \o <<length + offset>>
                        ELSE start
                 ELSE <<>>
  IN IF range # <<>> THEN {<<"Range", range>>} ELSE {}

\* Lines 557-573: range is '' unless offset or length is non-zero; then it
\* is bytes=offset- (bytes=0- for offset 0), followed by the last byte,
\* length + offset - 1, if length is non-zero; headers.Range is set unless
\* range is ''.
getPartialObjectHeaders(offset, length) ==
  LET start == IF offset # 0 THEN <<"bytes=", offset, "-">>
               ELSE <<"bytes=", 0, "-">>
      range == IF offset # 0 \/ length # 0
                 THEN IF length # 0
                        THEN start \o <<(length + offset) - 1>>
                        ELSE start
                 ELSE <<>>
  IN IF range # <<>> THEN {<<"Range", range>>} ELSE {}

\* getObject asks for offset 0 and length 0 (line 526); other callers pass
\* any numbers.
RangeInit ==
  /\ rgOffset \in 0..MaxRange
  /\ rgLength \in 0..MaxRange
  /\ rgCalled = FALSE
  /\ rgHeaders = {}

\* getPartialObject builds the headers of its request.
buildRangeHeaders ==
  /\ ~rgCalled
  /\ rgCalled' = TRUE
  /\ rgHeaders' = getPartialObjectHeaders(rgOffset, rgLength)
  /\ UNCHANGED <<rgOffset, rgLength>>
  /\ UNCHANGED notRg

RangeNext == buildRangeHeaders

InitRange ==
  RangeInit /\ PutQuiet /\ ReqIdle /\ RegIdle /\ RmIdle /\ LsIdle /\ RoIdle
    /\ PsIdle /\ CtIdle /\ LbIdle /\ AclIdle /\ PpIdle

SpecRange == InitRange /\ [][RangeNext]_vars

\* C24: the request of getPartialObject carries Range: bytes=offset-lastByte
\* with lastByte = offset + length - 1 whenever length > 0 (offset 0 too),
\* the open-ended Range: bytes=offset- when length = 0 and offset > 0, and no
\* Range header when both are 0.
C24_RangeHeader ==
  rgCalled =>
    /\ rgLength > 0
         => rgHeaders =
              {<<"Range", <<"bytes=", rgOffset, "-", rgOffset + rgLength - 1>>>>}
    /\ (rgLength = 0 /\ rgOffset > 0)
         => rgHeaders = {<<"Range", <<"bytes=", rgOffset, "-">>>>}
    /\ (rgLength = 0 /\ rgOffset = 0) => rgHeaders = {}

C24_Witness ==
  /\ rgCalled /\ rgOffset = 0 /\ rgLength = 5
  /\ rgHeaders = {<<"Range", <<"bytes=", 0, "-", 4>>>>}

-----------------------------------------------------------------------------
(* listBuckets (lines 291-310).                                            *)
(*                                                                         *)
(* An error is the pair of its code and its message; <<>> stands for no    *)
(* error. listBuckets names no bucket, so getBucketRegion calls back at    *)
(* once with us-east-1 (line 207) and the request is sent within the call. *)

ServerCodes == {"TemporaryRedirect", "AccessDenied", "InternalError"}
ServerMessages == {"Please re-send this request", "We encountered an error"}
ServerErrors == ServerCodes \X ServerMessages
NetworkFailure == <<"ECONNRESET", "socket hang up">>

\* Variant: the error is passed on as it came.
listBucketsCallback_asIs(e) ==
  IF e # <<>> THEN Cb(e, None) ELSE Cb(<<>>, "bucketStream")

\* The callback listBuckets gives to makeRequest (lines 296-309): what it
\* hands to the caller's callback.
listBucketsCallback(e) ==
  IF e # <<>>
    THEN IF e[1] = "TemporaryRedirect"
           THEN Cb(<<"AccessDenied",
                     "Valid and authorized credentials required">>, None)
           ELSE Cb(e, None)
    ELSE Cb(<<>>, "bucketStream")

ListBucketsInit == lbReq = NotSent /\ lbBody = <<>> /\ lbCbs = <<>>

\* listBuckets(cb): makeRequest({method}, 200, ...) sends GET / (line 296).
listBuckets ==
  /\ lbReq.st = "none"
  /\ lbReq' = Sent
  /\ UNCHANGED <<lbBody, lbCbs>>
  /\ UNCHANGED notLb

\* The request emits 'error' (line 201).
listBucketsRequestError ==
  /\ lbReq.st # "none" /\ ~lbReq.errored
  /\ lbReq' = [lbReq EXCEPT !.errored = TRUE]
  /\ lbCbs' = Append(lbCbs, listBucketsCallback(NetworkFailure))
  /\ UNCHANGED lbBody
  /\ UNCHANGED notLb

\* The request emits 'response' (lines 189-199): a 200 goes to the callback,
\* any other status has its body, an error document, sent to the error
\* parser.
listBucketsResponse ==
  /\ lbReq.st = "sent" /\ ~lbReq.errored
  /\ \E status \in Statuses :
       IF responseDispatch(200, status) = "success"
         THEN /\ lbReq' = [lbReq EXCEPT !.st = "handed", !.status = status]
              /\ lbCbs' = Append(lbCbs, listBucketsCallback(<<>>))
              /\ UNCHANGED lbBody
         ELSE /\ lbReq' = [lbReq EXCEPT !.st = "parsing", !.status = status]
              /\ lbBody' \in ServerErrors
              /\ UNCHANGED lbCbs
  /\ UNCHANGED notLb

\* The error parser emits the error of the document (line 195).
listBucketsErrorParsed ==
  /\ lbReq.st = "parsing"
  /\ lbReq' = [lbReq EXCEPT !.st = "parsed"]
  /\ lbCbs' = Append(lbCbs, listBucketsCallback(lbBody))
  /\ UNCHANGED lbBody
  /\ UNCHANGED notLb

ListBucketsNext ==
  \/ listBuckets
  \/ listBucketsRequestError
  \/ listBucketsResponse
  \/ listBucketsErrorParsed

InitListBuckets ==
  ListBucketsInit /\ PutQuiet /\ ReqIdle /\ RegIdle /\ RmIdle /\ LsIdle
    /\ RoIdle /\ PsIdle /\ CtIdle /\ RgIdle /\ AclIdle /\ PpIdle

SpecListBuckets == InitListBuckets /\ [][ListBucketsNext]_vars

\* The errors the caller has been given, and whether a stream was given.
LbErrors == {c.err : c \in Range(lbCbs)} \ {<<>>}
LbStream == \E c \in Range(lbCbs) : c.val # None

-----------------------------------------------------------------------------
(* The canned ACL of getBucketACL (lines 420-446).                         *)
(*                                                                         *)
(* A grant is the pair of its grantee's URI ("" for a grantee that is a    *)
(* user) and its permission.                                               *)

MaxGrants == 4

AllUsers == "http://acs.amazonaws.com/groups/global/AllUsers"
AuthenticatedUsers ==
  "http://acs.amazonaws.com/groups/global/AuthenticatedUsers"

Grants ==
  ({AllUsers, AuthenticatedUsers} \X {"READ", "WRITE"})
    \cup {<<AllUsers, "FULL_CONTROL">>, <<"", "FULL_CONTROL">>}

NoPerm ==
  [publicRead |-> FALSE, publicWrite |-> FALSE, authenticatedRead |-> FALSE,
   authenticatedWrite |-> FALSE]

\* The function given to reduce (lines 420-434).
permOf(acc, grant) ==
  IF grant[1] = AllUsers
    THEN IF grant[2] = "READ" THEN [acc EXCEPT !.publicRead = TRUE]
         ELSE IF grant[2] = "WRITE" THEN [acc EXCEPT !.publicWrite = TRUE]
         ELSE acc
    ELSE IF grant[1] = AuthenticatedUsers
      THEN IF grant[2] = "READ" THEN [acc EXCEPT !.authenticatedRead = TRUE]
           ELSE IF grant[2] = "WRITE"
             THEN [acc EXCEPT !.authenticatedWrite = TRUE]
           ELSE acc
      ELSE acc

\* data.acl.reduce(..., {}) (line 420).
RECURSIVE reduceAcl(_, _)
reduceAcl(acl, acc) ==
  IF acl = <<>> THEN acc ELSE reduceAcl(Tail(acl), permOf(acc, Head(acl)))

\* Variant: public-read-write whenever all users may write.
cannedACLOf_anyPublicWrite(perm) ==
  IF perm.publicWrite THEN "public-read-write"
  ELSE IF perm.publicRead /\ ~perm.publicWrite /\ ~perm.authenticatedRead
            /\ ~perm.authenticatedWrite
    THEN "public-read"
  ELSE IF ~perm.publicRead /\ ~perm.publicWrite /\ perm.authenticatedRead
            /\ ~perm.authenticatedWrite
    THEN "authenticated-read"
  ELSE IF ~perm.publicRead /\ ~perm.publicWrite /\ ~perm.authenticatedRead
            /\ ~perm.authenticatedWrite
    THEN "private"
  ELSE "unsupported-acl"

\* Lines 435-444.
cannedACLOf(perm) ==
  IF perm.publicRead /\ perm.publicWrite /\ ~perm.authenticatedRead
       /\ ~perm.authenticatedWrite
    THEN "public-read-write"
  ELSE IF perm.publicRead /\ ~perm.publicWrite /\ ~perm.authenticatedRead
            /\ ~perm.authenticatedWrite
    THEN "public-read"
  ELSE IF ~perm.publicRead /\ ~perm.publicWrite /\ perm.authenticatedRead
            /\ ~perm.authenticatedWrite
    THEN "authenticated-read"
  ELSE IF ~perm.publicRead /\ ~perm.publicWrite /\ ~perm.authenticatedRead
            /\ ~perm.authenticatedWrite
    THEN "private"
  ELSE "unsupported-acl"

\* The ACL parser emits 'data' with any list of grants.
AclInit ==
  /\ aclGrants \in UNION {[1..n -> Grants] : n \in 0..MaxGrants}
  /\ aclCanned = ""

\* The 'data' handler calls back with the canned ACL (lines 419-446).
aclData ==
  /\ aclCanned = ""
  /\ aclCanned' = cannedACLOf(reduceAcl(aclGrants, NoPerm))
  /\ UNCHANGED aclGrants
  /\ UNCHANGED notAcl

AclNext == aclData

InitAcl ==
  AclInit /\ PutQuiet /\ ReqIdle /\ RegIdle /\ RmIdle /\ LsIdle /\ RoIdle
    /\ PsIdle /\ CtIdle /\ RgIdle /\ LbIdle /\ PpIdle

SpecAcl == InitAcl /\ [][AclNext]_vars

Granted(uri, permission) == <<uri, permission>> \in Range(aclGrants)
PublicRead == Granted(AllUsers, "READ")
PublicWrite == Granted(AllUsers, "WRITE")
AuthRead == Granted(AuthenticatedUsers, "READ")
AuthWrite == Granted(AuthenticatedUsers, "WRITE")

-----------------------------------------------------------------------------
(* PostPolicy and presignedPostPolicy (lines 886-985).                     *)
(*                                                                         *)
(* A condition is a triple; formData is the set of its <<field, value>>    *)
(* pairs, with one pair for a field; the base64 of the policy document,    *)
(* the credential and the signature are the tuples of what they are made   *)
(* from.                                                                   *)

MaxConditions == 2
MaxSignings == 2
MaxClock == 1

PolicyKeys == {"", "photo.jpg"}
PolicyBuckets == {"", "b1"}
PolicyTypes == {"", "image/jpeg"}
PolicyLengths == {<<0, 10>>, <<10, 0>>}

\* formData[field] = value.
setField(formData, field, value) ==
  {p \in formData : p[1] # field} \cup {<<field, value>>}

Fields(formData) == {p[1] : p \in formData}

PostPolicyInit ==
  /\ ppExpiration = "" /\ ppConditions = <<>> /\ ppFormData = {}
  /\ ppNow = 0 /\ ppPending = 0 /\ ppThrown = None /\ ppCbs = <<>>

\* A setter that throws leaves the policy as it was.
setterThrows(e) ==
  /\ ppThrown' = e
  /\ UNCHANGED <<ppExpiration, ppConditions, ppFormData>>

\* setExpires(nativedate) (lines 924-934).
setExpires ==
  /\ ppExpiration' = "expiration"
  /\ ppThrown' = None
  /\ UNCHANGED <<ppConditions, ppFormData, ppNow, ppPending, ppCbs>>
  /\ UNCHANGED notPp

\* setKey(key) (lines 937-943); errors is a module, not a constructor, so
\* new errors(...) throws a TypeError.
setKey ==
  /\ Len(ppConditions) < MaxConditions
  /\ \E key \in PolicyKeys :
       IF key = "" THEN setterThrows("TypeError")
       ELSE /\ ppConditions' = Append(ppConditions, <<"eq", "$key", key>>)
            /\ ppFormData' = setField(ppFormData, "key", key)
            /\ ppThrown' = None
            /\ UNCHANGED ppExpiration
  /\ UNCHANGED <<ppNow, ppPending, ppCbs>>
  /\ UNCHANGED notPp

\* setKeyStartsWith(prefix) (lines 946-952): the names keyStartsWith and key
\* are not defined, so evaluating the condition throws a ReferenceError.
setKeyStartsWith ==
  /\ Len(ppConditions) < MaxConditions
  /\ \E prefix \in PolicyKeys :
       IF prefix = "" THEN setterThrows("TypeError")
       ELSE setterThrows("ReferenceError")
  /\ UNCHANGED <<ppNow, ppPending, ppCbs>>
  /\ UNCHANGED notPp

\* setBucket(bucket) (lines 955-961).
setBucket ==
  /\ Len(ppConditions) < MaxConditions
  /\ \E bucket \in PolicyBuckets :
       IF bucket = "" THEN setterThrows("TypeError")
       ELSE /\ ppConditions' = Append(ppConditions, <<"eq", "$bucket", bucket>>)
            /\ ppFormData' = setField(ppFormData, "bucket", bucket)
            /\ ppThrown' = None
            /\ UNCHANGED ppExpiration
  /\ UNCHANGED <<ppNow, ppPending, ppCbs>>
  /\ UNCHANGED notPp

\* setContentType(type) (lines 964-970).
setContentType ==
  /\ Len(ppConditions) < MaxConditions
  /\ \E type \in PolicyTypes :
       IF type = "" THEN setterThrows("TypeError")
       ELSE /\ ppConditions' =
                 Append(ppConditions, <<"eq", "$Content-Type", type>>)
            /\ ppFormData' = setField(ppFormData, "Content-Type", type)
            /\ ppThrown' = None
            /\ UNCHANGED ppExpiration
  /\ UNCHANGED <<ppNow, ppPending, ppCbs>>
  /\ UNCHANGED notPp

\* setContentLength(min, max) (lines 973-984); errrors is not defined.
setContentLength ==
  /\ Len(ppConditions) < MaxConditions
  /\ \E range \in PolicyLengths :
       IF range[1] > range[2] THEN setterThrows("ReferenceError")
       ELSE IF range[1] < 0 \/ range[2] < 0 THEN setterThrows("TypeError")
       ELSE /\ ppConditions' =
                 Append(ppConditions,
                        <<"content-length-range", range[1], range[2]>>)
            /\ ppThrown' = None
            /\ UNCHANGED <<ppExpiration, ppFormData>>
  /\ UNCHANGED <<ppNow, ppPending, ppCbs>>
  /\ UNCHANGED notPp

\* Time passes.
tick ==
  /\ ppNow < MaxClock
  /\ ppNow' = ppNow + 1
  /\ UNCHANGED <<ppExpiration, ppConditions, ppFormData, ppPending, ppThrown,
                 ppCbs>>
  /\ UNCHANGED notPp

\* The conditions after lines 893-900.
signedConditions(conditions, r, date) ==
  conditions \o <<<<"eq", "$x-amz-date", date>>,
                  <<"eq", "$x-amz-algorithm", "AWS4-HMAC-SHA256">>,
                  <<"eq", "$x-amz-credential", <<"accessKey", r, date>>>>>>

\* The callback presignedPostPolicy gives to getBucketRegion, called with a
\* region (lines 889-909).
signPolicy(r) ==
  LET date == ppNow
      conditions == signedConditions(ppConditions, r, date)
      policyBase64 == <<"base64", ppExpiration, conditions>>
      signature == <<"signature", r, date, policyBase64>>
      f1 == setField(ppFormData, "x-amz-date", <<date>>)
      f2 == setField(f1, "x-amz-algorithm", <<"AWS4-HMAC-SHA256">>)
      f3 == setField(f2, "x-amz-credential", <<"accessKey", r, date>>)
      f4 == setField(f3, "policy", policyBase64)
      f5 == setField(f4, "x-amz-signature", signature)
  IN /\ ppConditions' = conditions
     /\ ppFormData' = f5
     /\ ppCbs' = Append(ppCbs, [err |-> None, val |-> f5])

\* presignedPostPolicy(postPolicy, cb) (lines 886-887): getBucketRegion
\* calls back at once, for no bucket or a self-hosted server with us-east-1
\* and for a cached bucket with its region, or else asks the server.
presignedPostPolicy ==
  /\ Len(ppCbs) + ppPending < MaxSignings
  /\ \/ /\ signPolicy("us-east-1")
        /\ UNCHANGED ppPending
     \/ /\ "bucket" \in Fields(ppFormData)
        /\ signPolicy("eu-west-1")
        /\ UNCHANGED ppPending
     \/ /\ "bucket" \in Fields(ppFormData)
        /\ ppPending' = ppPending + 1
        /\ UNCHANGED <<ppConditions, ppFormData, ppCbs>>
  /\ UNCHANGED <<ppExpiration, ppNow, ppThrown>>
  /\ UNCHANGED notPp

\* The region lookup of a waiting call calls back with a region.
policyRegionFound ==
  /\ ppPending > 0
  /\ ppPending' = ppPending - 1
  /\ \E r \in {"us-east-1", "eu-west-1"} : signPolicy(r)
  /\ UNCHANGED <<ppExpiration, ppNow, ppThrown>>
  /\ UNCHANGED notPp

\* The region lookup of a waiting call fails (line 888).
policyRegionError ==
  /\ ppPending > 0
  /\ ppPending' = ppPending - 1
  /\ ppCbs' = Append(ppCbs, [err |-> "NetworkError", val |-> {}])
  /\ UNCHANGED <<ppExpiration, ppConditions, ppFormData, ppNow, ppThrown>>
  /\ UNCHANGED notPp

PostPolicyNext ==
  \/ setExpires
  \/ setKey
  \/ setKeyStartsWith
  \/ setBucket
  \/ setContentType
  \/ setContentLength
  \/ tick
  \/ presignedPostPolicy
  \/ policyRegionFound
  \/ policyRegionError

InitPostPolicy ==
  PostPolicyInit /\ PutQuiet /\ ReqIdle /\ RegIdle /\ RmIdle /\ LsIdle
    /\ RoIdle /\ PsIdle /\ CtIdle /\ RgIdle /\ LbIdle /\ AclIdle

SpecPostPolicy == InitPostPolicy /\ [][PostPolicyNext]_vars

\* C27: every formData delivered as a success holds the fields key, bucket,
\* policy, x-amz-algorithm, x-amz-credential, x-amz-date and
\* x-amz-signature; a policy without a bucket condition or without a key
\* (or key prefix) condition is never signed successfully.
C27_SignedFormComplete ==
  \A c \in Range(ppCbs) :
    c.err = None =>
      {"key", "bucket", "policy", "x-amz-algorithm", "x-amz-credential",
       "x-amz-date", "x-amz-signature"} \subseteq Fields(c.val)

\* The eq conditions on a form field, and the value formData has for it.
ConditionsOn(field) ==
  SelectSeq(ppConditions, LAMBDA c : c[1] = "eq" /\ c[2] = field)

FieldValues(field) == {p[2] : p \in {q \in ppFormData : q[1] = field}}

Signed == \E c \in Range(ppCbs) : c.err = None

\* C30: once presignedPostPolicy has signed the policy, however many times,
\* its conditions hold exactly one x-amz-date, one x-amz-algorithm and one
\* x-amz-credential condition, each with the value of the formData field of
\* that name; signing does not pile up conditions.
C30_NoAccumulation ==
  Signed =>
    /\ Len(ConditionsOn("$x-amz-date")) = 1
    /\ Len(ConditionsOn("$x-amz-algorithm")) = 1
    /\ Len(ConditionsOn("$x-amz-credential")) = 1
    /\ FieldValues("x-amz-date") = {<<ConditionsOn("$x-amz-date")[1][3]>>}
    /\ FieldValues("x-amz-credential")
         = {ConditionsOn("$x-amz-credential")[1][3]}

-----------------------------------------------------------------------------
(* makeRequest: the signed request and the region it waits for. *)

OverMakeRequest == op \in {"makeRequest", "getPartialObject"}

MainRequests == {i \in 1..Len(wire) : wire[i] = "main"}

\* The region lookup of the call has failed: its request broke before any
\* response, or the response had a status other than 200, or the body of a
\* 200 response could not be parsed.
ResolutionFailed ==
  \/ loc.st = "sent" /\ loc.errored
  \/ loc.st = "parsed" /\ loc.status # 200
  \/ loc.st = "parsed" /\ loc.status = 200 /\ region = ""

-----------------------------------------------------------------------------
(* makeRequest: the callback is reached.                                   *)
(*                                                                         *)
(* The transport answers every request it is given with 'response' or,     *)
(* before any response, with 'error'; the body of every response ends, and *)
(* the parser it is piped into then emits what it has parsed: the error    *)
(* parser an error, always, the region parser an error or the location     *)
(* constraint, an empty one too.                                           *)

TransportDelivers ==
  /\ WF_vars(locationResponse \/ (loc.st = "sent" /\ locationError))
  /\ WF_vars(requestResponse \/ (main.st = "sent" /\ requestError))

BodyEnds ==
  /\ WF_vars(locationParsed)
  /\ WF_vars(requestErrorParsed)
  /\ WF_vars(objectErrorParsed)

SpecReqLive == InitReq /\ [][ReqNext]_vars /\ TransportDelivers /\ BodyEnds

\* C29: every call of makeRequest (getPartialObject's too) leads to an
\* invocation of makeRequest's callback, given that the transport delivers a
\* response or an error for every request and that every response body
\* ends; so it does when the status differs from the expected one, whatever
\* the error body, and when the body of a 200 location response names no
\* region.
C29_CallbackReached ==
  OverMakeRequest ~> (mrcbs # <<>>)

C29_Witness ==
  /\ op = "makeRequest" /\ bucketName = "b1" /\ statusCode = 200
  /\ loc.st = "parsed" /\ loc.status = 200 /\ region = "us-east-1"
  /\ main.st = "parsed" /\ main.status = 404
  /\ mrcbs = <<Cb("ServerError", None)>>

====
